---- MODULE Spec2Model ----
(***************************************************************************)
(* The book-page converter.  The tRPC procedures of the application router *)
(* (pages.upload, processOCR, retrySingle, retryFailed, reorder and        *)
(* updateOrder) run as concurrent request handlers over one shared         *)
(* database.  A handler is cut at its awaits: every database call and the  *)
(* recognizer call is one step, and the steps of different requests        *)
(* interleave freely, as they do on the Node event loop.  retryWithBackoff *)
(* of the OCR service and the handlers of the ProjectDetail page are       *)
(* modelled the same way, each with a specification of its own.            *)
(***************************************************************************)
EXTENDS Integers, Sequences, FiniteSets, TLC

(* ---- bounds ---- *)
MaxPages == 2
MaxCalls == 3
MaxInFlight == 2

(* extractPageNumber: the longest text of any character, the highest Roman *)
(* numeral and the longest text of digits that are tried.                   *)
MaxTextLen == 3
MaxNumeral == 100
MaxDigits == 5

(* ---- values ---- *)
NULL == "<null>"
UNDEFINED == "<undefined>"

Users == {"owner", "other"}
ProjectOwner == "owner"
ProjectIds == {1}
ProjectIdInputs == {1, 2}

PageIdInputs == 1 .. (MaxPages + 1)

UpstreamErrors == {"bad image"}

(* What performOCR returns: the text, the label the extractor made of the   *)
(* recognizer's answer, the blocks, and the confidence divided by 100.      *)
OcrResults ==
  { [extractedText |-> "T1", detectedPageNumber |-> "7",
     formattingData |-> "blocks of T1", confidence |-> "0.95"],
    [extractedText |-> "T2", detectedPageNumber |-> NULL,
     formattingData |-> "blocks of T2", confidence |-> "0.6"] }

NoCall == [op |-> "none"]
NoRet == [op |-> "none"]

(* No call of extractPageNumber or of performOCR's label step. *)
NoExtraction == [pc |-> "none"]

(* No activation of retryWithBackoff. *)
NoInvocation == [pc |-> "none"]

(* The ProjectDetail component as it is mounted: a project without pages in *)
(* the query cache, no handler running.  retryingPageId is 0 for null.      *)
NoProgress == [current |-> 0, total |-> 0]

ClientMounted ==
  [data |-> <<>>, isRetrying |-> FALSE, isProcessing |-> FALSE,
   retryingPageId |-> 0, retryingProgress |-> NoProgress,
   processingProgress |-> NoProgress, clicks |-> 0, handlers |-> {}]

VARIABLES pages, projects, calls, started, ret, invoker, client, extractor

vars == <<pages, projects, calls, started, ret, invoker, client, extractor>>

Slots == 1 .. MaxInFlight

(* ---- database accessors ----                                            *)
(* The router imports these from ./db.  A read returns the record as it is  *)
(* stored at that moment; an update writes the fields it is given to one    *)
(* record and leaves its other fields alone (updatePage(id, {sortOrder})    *)
(* keeps text and status); updatePageStatus writes the status, and the      *)
(* error message only when it is passed one.  Page ids are the positions    *)
(* in creation order.  A page record has the attributes of the data model:  *)
(* createPage is given the project and the status and leaves the label, its *)
(* numeric sort key, the formatting and the confidence null and the sort    *)
(* position at the column default.                                          *)
PageExists(ps, id) == id \in 1 .. Len(ps)

NoPage == [status |-> NULL]

getPageById(ps, id) == IF PageExists(ps, id) THEN ps[id] ELSE NoPage

ProjectExists(prj, id) == id \in DOMAIN prj

createPage(ps, projectId) ==
  Append(ps, [projectId |-> projectId,
              status |-> "pending",
              extractedText |-> NULL,
              detectedPageNumber |-> NULL,
              sortKey |-> NULL,
              formattingData |-> NULL,
              confidence |-> NULL,
              errorMessage |-> NULL,
              sortOrder |-> 0])

updatePage(ps, id, upd) ==
  [ps EXCEPT ![id] =
     [f \in DOMAIN ps[id] |-> IF f \in DOMAIN upd THEN upd[f] ELSE ps[id][f]]]

updatePageStatus(ps, id, status, errorMessage) ==
  IF errorMessage = UNDEFINED
    THEN updatePage(ps, id, [status |-> status])
    ELSE updatePage(ps, id, [status |-> status, errorMessage |-> errorMessage])

(* The ids of a project's pages as the page list gives them: in the order   *)
(* of their sort positions, pages at the same position in creation order.   *)
RECURSIVE InOrder(_, _)
InOrder(ps, ids) ==
  IF ids = {}
    THEN <<>>
    ELSE LET first == CHOOSE i \in ids :
                        \A j \in ids :
                          \/ ps[i].sortOrder < ps[j].sortOrder
                          \/ ps[i].sortOrder = ps[j].sortOrder /\ i <= j
         IN <<first>> \o InOrder(ps, ids \ {first})

getPagesByProjectId(ps, projectId) ==
  InOrder(ps, {i \in 1 .. Len(ps) : ps[i].projectId = projectId})

updateProject(prj, id, upd) ==
  [prj EXCEPT ![id] =
     [f \in DOMAIN prj[id] |-> IF f \in DOMAIN upd THEN upd[f] ELSE prj[id][f]]]

(* ---- recognizer ----                                                    *)
(* performOCR either returns a result or throws, and whatever it caught it  *)
(* throws as Error("OCR processing failed: " + cause).                      *)
OcrFailure(m) == "OCR processing failed: " \o m

OcrErrors == { OcrFailure(m) : m \in UpstreamErrors }

(* ---- request bookkeeping ----                                           *)
(* calls holds the requests in flight with their local variables, started   *)
(* counts the process and retry requests received, and ret is the response  *)
(* the latest step sent (NoRet when that step sent none).  The first read   *)
(* of a handler happens in the step that receives the request.              *)
FreeSlot(c) ==
  /\ calls[c] = NoCall
  /\ \A d \in Slots : d < c => calls[d] # NoCall

Throw(op, input, user, msg) ==
  [op |-> op, input |-> input, user |-> user, outcome |-> "throw", error |-> msg]

Init ==
  /\ pages = <<>>
  /\ projects = [p \in ProjectIds |->
                   [userId |-> ProjectOwner, totalPages |-> 0, processedPages |-> 0]]
  /\ calls = [c \in Slots |-> NoCall]
  /\ started = 0
  /\ ret = NoRet
  /\ invoker = NoInvocation
  /\ client = ClientMounted
  /\ extractor = NoExtraction

(* ---- pages.upload ----                                                  *)
(* storagePut touches no record and is part of the createPage step.         *)
UploadStart(c, user, projectId) ==
  /\ FreeSlot(c)
  /\ Len(pages) + Cardinality({d \in Slots : calls[d].op = "upload"}) < MaxPages
  /\ IF ~ProjectExists(projects, projectId)
       THEN /\ ret' = Throw("upload", projectId, user, "Project not found")
            /\ calls' = calls
       ELSE IF projects[projectId].userId # user
       THEN /\ ret' = Throw("upload", projectId, user, "Unauthorized")
            /\ calls' = calls
       ELSE /\ calls' = [calls EXCEPT ![c] =
                  [op |-> "upload", pc |-> "createPage", user |-> user,
                   projectId |-> projectId,
                   totalPages |-> projects[projectId].totalPages]]
            /\ ret' = NoRet
  /\ UNCHANGED <<extractor, invoker, client, pages, projects, started>>

UploadCreatePage(c) ==
  /\ calls[c].op = "upload"
  /\ calls[c].pc = "createPage"
  /\ pages' = createPage(pages, calls[c].projectId)
  /\ calls' = [calls EXCEPT ![c] =
       [calls[c] EXCEPT !.pc = "updateProject"] @@ [pageId |-> Len(pages) + 1]]
  /\ ret' = NoRet
  /\ UNCHANGED <<extractor, invoker, client, projects, started>>

UploadUpdateProject(c) ==
  /\ calls[c].op = "upload"
  /\ calls[c].pc = "updateProject"
  /\ projects' = updateProject(projects, calls[c].projectId,
                               [totalPages |-> calls[c].totalPages + 1])
  /\ ret' = [op |-> "upload", input |-> calls[c].projectId, user |-> calls[c].user,
             outcome |-> "return", pageId |-> calls[c].pageId]
  /\ calls' = [calls EXCEPT ![c] = NoCall]
  /\ UNCHANGED <<extractor, invoker, client, pages, started>>

(* ---- pages.processOCR ---- *)
OcrOutcomes ==
  { [ok |-> TRUE, result |-> r, error |-> NULL] : r \in OcrResults }
    \cup { [ok |-> FALSE, result |-> NULL, error |-> e] : e \in OcrErrors }

ProcessOCRStart(c, user, pageId) ==
  /\ FreeSlot(c)
  /\ started < MaxCalls
  /\ started' = started + 1
  /\ IF getPageById(pages, pageId) = NoPage
       THEN /\ ret' = Throw("processOCR", pageId, user, "Page not found")
            /\ calls' = calls
       ELSE /\ calls' = [calls EXCEPT ![c] =
                  [op |-> "processOCR", pc |-> "getProject", user |-> user,
                   pageId |-> pageId,
                   page |-> [projectId |-> getPageById(pages, pageId).projectId]]]
            /\ ret' = NoRet
  /\ UNCHANGED <<extractor, invoker, client, pages, projects>>

ProcessOCRGetProject(c) ==
  /\ calls[c].op = "processOCR"
  /\ calls[c].pc = "getProject"
  /\ LET pid == calls[c].page.projectId IN
       IF ~ProjectExists(projects, pid) \/ projects[pid].userId # calls[c].user
         THEN /\ ret' = Throw("processOCR", calls[c].pageId, calls[c].user, "Unauthorized")
              /\ calls' = [calls EXCEPT ![c] = NoCall]
         ELSE /\ calls' = [calls EXCEPT ![c] =
                    [calls[c] EXCEPT !.pc = "updatePageStatus"]
                      @@ [processedPages |-> projects[pid].processedPages]]
              /\ ret' = NoRet
  /\ UNCHANGED <<extractor, invoker, client, pages, projects, started>>

ProcessOCRUpdatePageStatus(c) ==
  /\ calls[c].op = "processOCR"
  /\ calls[c].pc = "updatePageStatus"
  /\ pages' = updatePageStatus(pages, calls[c].pageId, "processing", UNDEFINED)
  /\ calls' = [calls EXCEPT ![c].pc = "performOCR"]
  /\ ret' = NoRet
  /\ UNCHANGED <<extractor, invoker, client, projects, started>>

ProcessOCRPerformOCRRecordsFailure(c) ==
  /\ calls[c].op = "processOCR"
  /\ calls[c].pc = "performOCR"
  /\ \E o \in OcrOutcomes :
       /\ calls' = [calls EXCEPT ![c] =
            [calls[c] EXCEPT !.pc = IF o.ok THEN "updatePage" ELSE "catch"]
              @@ [ocrResult |-> o.result, error |-> o.error]]
       /\ pages' = IF o.ok THEN pages
                           ELSE updatePage(pages, calls[c].pageId,
                                           [status |-> "failed", errorMessage |-> o.error])
  /\ ret' = NoRet
  /\ UNCHANGED <<extractor, invoker, client, projects, started>>

ProcessOCRPerformOCR(c) ==
  /\ calls[c].op = "processOCR"
  /\ calls[c].pc = "performOCR"
  /\ \E o \in OcrOutcomes :
       calls' = [calls EXCEPT ![c] =
         [calls[c] EXCEPT !.pc = IF o.ok THEN "updatePage" ELSE "catch"]
           @@ [ocrResult |-> o.result, error |-> o.error]]
  /\ ret' = NoRet
  /\ UNCHANGED <<extractor, invoker, client, pages, projects, started>>

ProcessOCRUpdatePage(c) ==
  /\ calls[c].op = "processOCR"
  /\ calls[c].pc = "updatePage"
  /\ pages' = updatePage(pages, calls[c].pageId,
                [extractedText |-> calls[c].ocrResult.extractedText,
                 detectedPageNumber |-> calls[c].ocrResult.detectedPageNumber,
                 formattingData |-> calls[c].ocrResult.formattingData,
                 status |-> "completed"])
  /\ calls' = [calls EXCEPT ![c].pc = "updateProject"]
  /\ ret' = NoRet
  /\ UNCHANGED <<extractor, invoker, client, projects, started>>

ProcessOCRUpdateProject(c) ==
  /\ calls[c].op = "processOCR"
  /\ calls[c].pc = "updateProject"
  /\ projects' = updateProject(projects, calls[c].page.projectId,
                   [processedPages |-> calls[c].processedPages + 1])
  /\ ret' = [op |-> "processOCR", input |-> calls[c].pageId, user |-> calls[c].user,
             outcome |-> "return", success |-> TRUE,
             pageNumber |-> calls[c].ocrResult.detectedPageNumber]
  /\ calls' = [calls EXCEPT ![c] = NoCall]
  /\ UNCHANGED <<extractor, invoker, client, pages, started>>

ProcessOCRCatchSwallow(c) ==
  /\ calls[c].op = "processOCR"
  /\ calls[c].pc = "catch"
  /\ pages' = updatePageStatus(pages, calls[c].pageId, "failed", calls[c].error)
  /\ ret' = [op |-> "processOCR", input |-> calls[c].pageId, user |-> calls[c].user,
             outcome |-> "return", success |-> FALSE, pageNumber |-> NULL]
  /\ calls' = [calls EXCEPT ![c] = NoCall]
  /\ UNCHANGED <<extractor, invoker, client, projects, started>>

ProcessOCRCatch(c) ==
  /\ calls[c].op = "processOCR"
  /\ calls[c].pc = "catch"
  /\ pages' = updatePageStatus(pages, calls[c].pageId, "failed", calls[c].error)
  /\ ret' = Throw("processOCR", calls[c].pageId, calls[c].user, calls[c].error)
  /\ calls' = [calls EXCEPT ![c] = NoCall]
  /\ UNCHANGED <<extractor, invoker, client, projects, started>>

(* ---- pages.retrySingle ---- *)
InvalidOperation == "Only failed or pending pages can be processed"

RetrySingleStart(c, user, pageId) ==
  /\ FreeSlot(c)
  /\ started < MaxCalls
  /\ started' = started + 1
  /\ IF getPageById(pages, pageId) = NoPage
       THEN /\ ret' = Throw("retrySingle", pageId, user, "Page not found")
            /\ calls' = calls
       ELSE /\ calls' = [calls EXCEPT ![c] =
                  [op |-> "retrySingle", pc |-> "getProject", user |-> user,
                   pageId |-> pageId,
                   page |-> [projectId |-> getPageById(pages, pageId).projectId,
                             status |-> getPageById(pages, pageId).status]]]
            /\ ret' = NoRet
  /\ UNCHANGED <<extractor, invoker, client, pages, projects>>

RetrySingleGetProjectNoStatusCheck(c) ==
  /\ calls[c].op = "retrySingle"
  /\ calls[c].pc = "getProject"
  /\ LET pid == calls[c].page.projectId IN
       IF ~ProjectExists(projects, pid) \/ projects[pid].userId # calls[c].user
         THEN /\ ret' = Throw("retrySingle", calls[c].pageId, calls[c].user, "Unauthorized")
              /\ calls' = [calls EXCEPT ![c] = NoCall]
         ELSE /\ calls' = [calls EXCEPT ![c] =
                    [calls[c] EXCEPT !.pc = "updatePageStatus"]
                      @@ [processedPages |-> projects[pid].processedPages]]
              /\ ret' = NoRet
  /\ UNCHANGED <<extractor, invoker, client, pages, projects, started>>

RetrySingleGetProject(c) ==
  /\ calls[c].op = "retrySingle"
  /\ calls[c].pc = "getProject"
  /\ LET pid == calls[c].page.projectId IN
       IF ~ProjectExists(projects, pid) \/ projects[pid].userId # calls[c].user
         THEN /\ ret' = Throw("retrySingle", calls[c].pageId, calls[c].user, "Unauthorized")
              /\ calls' = [calls EXCEPT ![c] = NoCall]
       ELSE IF calls[c].page.status # "failed" /\ calls[c].page.status # "pending"
         THEN /\ ret' = Throw("retrySingle", calls[c].pageId, calls[c].user, InvalidOperation)
              /\ calls' = [calls EXCEPT ![c] = NoCall]
         ELSE /\ calls' = [calls EXCEPT ![c] =
                    [calls[c] EXCEPT !.pc = "updatePageStatus"]
                      @@ [processedPages |-> projects[pid].processedPages]]
              /\ ret' = NoRet
  /\ UNCHANGED <<extractor, invoker, client, pages, projects, started>>

RetrySingleUpdatePageStatus(c) ==
  /\ calls[c].op = "retrySingle"
  /\ calls[c].pc = "updatePageStatus"
  /\ pages' = updatePageStatus(pages, calls[c].pageId, "processing", UNDEFINED)
  /\ calls' = [calls EXCEPT ![c].pc = "performOCR"]
  /\ ret' = NoRet
  /\ UNCHANGED <<extractor, invoker, client, projects, started>>

RetrySinglePerformOCR(c) ==
  /\ calls[c].op = "retrySingle"
  /\ calls[c].pc = "performOCR"
  /\ \E o \in OcrOutcomes :
       calls' = [calls EXCEPT ![c] =
         [calls[c] EXCEPT !.pc = IF o.ok THEN "updatePage" ELSE "catch"]
           @@ [ocrResult |-> o.result, error |-> o.error]]
  /\ ret' = NoRet
  /\ UNCHANGED <<extractor, invoker, client, pages, projects, started>>

RetrySingleUpdatePage(c) ==
  /\ calls[c].op = "retrySingle"
  /\ calls[c].pc = "updatePage"
  /\ pages' = updatePage(pages, calls[c].pageId,
                [extractedText |-> calls[c].ocrResult.extractedText,
                 detectedPageNumber |-> calls[c].ocrResult.detectedPageNumber,
                 formattingData |-> calls[c].ocrResult.formattingData,
                 status |-> "completed",
                 errorMessage |-> NULL])
  /\ calls' = [calls EXCEPT ![c].pc = "updateProject"]
  /\ ret' = NoRet
  /\ UNCHANGED <<extractor, invoker, client, projects, started>>

RetrySingleUpdateProject(c) ==
  /\ calls[c].op = "retrySingle"
  /\ calls[c].pc = "updateProject"
  /\ projects' = updateProject(projects, calls[c].page.projectId,
                   [processedPages |-> calls[c].processedPages + 1])
  /\ ret' = [op |-> "retrySingle", input |-> calls[c].pageId, user |-> calls[c].user,
             outcome |-> "return", success |-> TRUE,
             pageNumber |-> calls[c].ocrResult.detectedPageNumber]
  /\ calls' = [calls EXCEPT ![c] = NoCall]
  /\ UNCHANGED <<extractor, invoker, client, pages, started>>

RetrySingleCatchNoMessage(c) ==
  /\ calls[c].op = "retrySingle"
  /\ calls[c].pc = "catch"
  /\ pages' = updatePage(pages, calls[c].pageId, [status |-> "failed"])
  /\ ret' = Throw("retrySingle", calls[c].pageId, calls[c].user, calls[c].error)
  /\ calls' = [calls EXCEPT ![c] = NoCall]
  /\ UNCHANGED <<extractor, invoker, client, projects, started>>

RetrySingleCatchRethrowOnly(c) ==
  /\ calls[c].op = "retrySingle"
  /\ calls[c].pc = "catch"
  /\ ret' = Throw("retrySingle", calls[c].pageId, calls[c].user, calls[c].error)
  /\ calls' = [calls EXCEPT ![c] = NoCall]
  /\ UNCHANGED <<extractor, invoker, client, pages, projects, started>>

RetrySingleCatch(c) ==
  /\ calls[c].op = "retrySingle"
  /\ calls[c].pc = "catch"
  /\ pages' = updatePage(pages, calls[c].pageId,
                [status |-> "failed", errorMessage |-> calls[c].error])
  /\ ret' = Throw("retrySingle", calls[c].pageId, calls[c].user, calls[c].error)
  /\ calls' = [calls EXCEPT ![c] = NoCall]
  /\ UNCHANGED <<extractor, invoker, client, projects, started>>

(* ---- pages.retryFailed ---- *)
FailedPagesOfAnyProject(ps, projectId) ==
  SelectSeq([i \in 1 .. Len(ps) |-> i], LAMBDA i : ps[i].status = "failed")

FailedPagesOf(ps, projectId) ==
  SelectSeq(getPagesByProjectId(ps, projectId), LAMBDA i : ps[i].status = "failed")

SuccessCount(results) == Len(SelectSeq(results, LAMBDA r : r.success))

RetryFailedReturn(call, results) ==
  [op |-> "retryFailed", input |-> call.projectId, user |-> call.user,
   outcome |-> "return", success |-> TRUE,
   retriedCount |-> Len(call.failedPages),
   successCount |-> SuccessCount(results),
   results |-> results]

RetryFailedStart(c, user, projectId) ==
  /\ FreeSlot(c)
  /\ started < MaxCalls
  /\ started' = started + 1
  /\ IF ~ProjectExists(projects, projectId)
       THEN /\ ret' = Throw("retryFailed", projectId, user, "Project not found")
            /\ calls' = calls
       ELSE IF projects[projectId].userId # user
       THEN /\ ret' = Throw("retryFailed", projectId, user, "Unauthorized")
            /\ calls' = calls
       ELSE /\ calls' = [calls EXCEPT ![c] =
                  [op |-> "retryFailed", pc |-> "getPages", user |-> user,
                   projectId |-> projectId,
                   processedPages |-> projects[projectId].processedPages]]
            /\ ret' = NoRet
  /\ UNCHANGED <<extractor, invoker, client, pages, projects>>

RetryFailedGetPages(c) ==
  /\ calls[c].op = "retryFailed"
  /\ calls[c].pc = "getPages"
  /\ LET failedPages == FailedPagesOf(pages, calls[c].projectId) IN
       IF Len(failedPages) = 0
         THEN /\ ret' = [op |-> "retryFailed", input |-> calls[c].projectId,
                         user |-> calls[c].user, outcome |-> "return",
                         success |-> TRUE, retriedCount |-> 0, successCount |-> 0,
                         results |-> <<>>]
              /\ calls' = [calls EXCEPT ![c] = NoCall]
         ELSE /\ calls' = [calls EXCEPT ![c] =
                    [calls[c] EXCEPT !.pc = "updatePageStatus"]
                      @@ [failedPages |-> failedPages, i |-> 1, results |-> <<>>,
                          ocrResult |-> NULL, error |-> NULL]]
              /\ ret' = NoRet
  /\ UNCHANGED <<extractor, invoker, client, pages, projects, started>>

RetryFailedUpdatePageStatusFanOut(c) ==
  /\ calls[c].op = "retryFailed"
  /\ calls[c].pc = "updatePageStatus"
  /\ pages' = [k \in 1 .. Len(pages) |->
                IF \E j \in calls[c].i .. Len(calls[c].failedPages) :
                     calls[c].failedPages[j] = k
                  THEN [pages[k] EXCEPT !.status = "processing"]
                  ELSE pages[k]]
  /\ calls' = [calls EXCEPT ![c].pc = "performOCR"]
  /\ ret' = NoRet
  /\ UNCHANGED <<extractor, invoker, client, projects, started>>

RetryFailedUpdatePageStatus(c) ==
  /\ calls[c].op = "retryFailed"
  /\ calls[c].pc = "updatePageStatus"
  /\ pages' = updatePageStatus(pages, calls[c].failedPages[calls[c].i],
                               "processing", UNDEFINED)
  /\ calls' = [calls EXCEPT ![c].pc = "performOCR"]
  /\ ret' = NoRet
  /\ UNCHANGED <<extractor, invoker, client, projects, started>>

RetryFailedPerformOCR(c) ==
  /\ calls[c].op = "retryFailed"
  /\ calls[c].pc = "performOCR"
  /\ \E o \in OcrOutcomes :
       calls' = [calls EXCEPT ![c] =
         [calls[c] EXCEPT !.pc = IF o.ok THEN "updatePage" ELSE "catch",
                          !.ocrResult = o.result, !.error = o.error]]
  /\ ret' = NoRet
  /\ UNCHANGED <<extractor, invoker, client, pages, projects, started>>

RetryFailedNext(c, results) ==
  IF calls[c].i < Len(calls[c].failedPages)
    THEN /\ calls' = [calls EXCEPT ![c] =
               [calls[c] EXCEPT !.pc = "updatePageStatus", !.i = @ + 1,
                                !.results = results,
                                !.ocrResult = NULL, !.error = NULL]]
         /\ ret' = NoRet
    ELSE IF SuccessCount(results) > 0
    THEN /\ calls' = [calls EXCEPT ![c] =
               [calls[c] EXCEPT !.pc = "updateProject", !.i = @ + 1,
                                !.results = results,
                                !.ocrResult = NULL, !.error = NULL]]
         /\ ret' = NoRet
    ELSE /\ calls' = [calls EXCEPT ![c] = NoCall]
         /\ ret' = RetryFailedReturn(calls[c], results)

RetryFailedUpdatePage(c) ==
  /\ calls[c].op = "retryFailed"
  /\ calls[c].pc = "updatePage"
  /\ LET pageId == calls[c].failedPages[calls[c].i] IN
       /\ pages' = updatePage(pages, pageId,
                     [extractedText |-> calls[c].ocrResult.extractedText,
                      detectedPageNumber |-> calls[c].ocrResult.detectedPageNumber,
                      formattingData |-> calls[c].ocrResult.formattingData,
                      status |-> "completed",
                      errorMessage |-> NULL])
       /\ RetryFailedNext(c, Append(calls[c].results,
                                    [pageId |-> pageId, success |-> TRUE,
                                     error |-> UNDEFINED]))
  /\ UNCHANGED <<extractor, invoker, client, projects, started>>

RetryFailedCatchGenericMessage(c) ==
  /\ calls[c].op = "retryFailed"
  /\ calls[c].pc = "catch"
  /\ LET pageId == calls[c].failedPages[calls[c].i] IN
       /\ pages' = updatePage(pages, pageId,
                     [status |-> "failed", errorMessage |-> "OCR processing failed"])
       /\ RetryFailedNext(c, Append(calls[c].results,
                                    [pageId |-> pageId, success |-> FALSE,
                                     error |-> calls[c].error]))
  /\ UNCHANGED <<extractor, invoker, client, projects, started>>

RetryFailedCatchAbort(c) ==
  /\ calls[c].op = "retryFailed"
  /\ calls[c].pc = "catch"
  /\ pages' = updatePage(pages, calls[c].failedPages[calls[c].i],
                [status |-> "failed", errorMessage |-> calls[c].error])
  /\ ret' = Throw("retryFailed", calls[c].projectId, calls[c].user, calls[c].error)
  /\ calls' = [calls EXCEPT ![c] = NoCall]
  /\ UNCHANGED <<extractor, invoker, client, projects, started>>

RetryFailedCatch(c) ==
  /\ calls[c].op = "retryFailed"
  /\ calls[c].pc = "catch"
  /\ LET pageId == calls[c].failedPages[calls[c].i] IN
       /\ pages' = updatePage(pages, pageId,
                     [status |-> "failed", errorMessage |-> calls[c].error])
       /\ RetryFailedNext(c, Append(calls[c].results,
                                    [pageId |-> pageId, success |-> FALSE,
                                     error |-> calls[c].error]))
  /\ UNCHANGED <<extractor, invoker, client, projects, started>>

RetryFailedUpdateProjectRetriedCount(c) ==
  /\ calls[c].op = "retryFailed"
  /\ calls[c].pc = "updateProject"
  /\ projects' = updateProject(projects, calls[c].projectId,
                   [processedPages |->
                      calls[c].processedPages + Len(calls[c].failedPages)])
  /\ ret' = RetryFailedReturn(calls[c], calls[c].results)
  /\ calls' = [calls EXCEPT ![c] = NoCall]
  /\ UNCHANGED <<extractor, invoker, client, pages, started>>

RetryFailedUpdateProject(c) ==
  /\ calls[c].op = "retryFailed"
  /\ calls[c].pc = "updateProject"
  /\ projects' = updateProject(projects, calls[c].projectId,
                   [processedPages |->
                      calls[c].processedPages + SuccessCount(calls[c].results)])
  /\ ret' = RetryFailedReturn(calls[c], calls[c].results)
  /\ calls' = [calls EXCEPT ![c] = NoCall]
  /\ UNCHANGED <<extractor, invoker, client, pages, started>>

Next ==
  \/ \E c \in Slots, u \in Users, p \in ProjectIdInputs :
       UploadStart(c, u, p)
  \/ \E c \in Slots : UploadCreatePage(c)
  \/ \E c \in Slots : UploadUpdateProject(c)
  \/ \E c \in Slots, u \in Users, p \in PageIdInputs : ProcessOCRStart(c, u, p)
  \/ \E c \in Slots : ProcessOCRGetProject(c)
  \/ \E c \in Slots : ProcessOCRUpdatePageStatus(c)
  \/ \E c \in Slots : ProcessOCRPerformOCR(c)
  \/ \E c \in Slots : ProcessOCRUpdatePage(c)
  \/ \E c \in Slots : ProcessOCRUpdateProject(c)
  \/ \E c \in Slots : ProcessOCRCatch(c)
  \/ \E c \in Slots, u \in Users, p \in PageIdInputs : RetrySingleStart(c, u, p)
  \/ \E c \in Slots : RetrySingleGetProject(c)
  \/ \E c \in Slots : RetrySingleUpdatePageStatus(c)
  \/ \E c \in Slots : RetrySinglePerformOCR(c)
  \/ \E c \in Slots : RetrySingleUpdatePage(c)
  \/ \E c \in Slots : RetrySingleUpdateProject(c)
  \/ \E c \in Slots : RetrySingleCatch(c)
  \/ \E c \in Slots, u \in Users, p \in ProjectIdInputs :
       RetryFailedStart(c, u, p)
  \/ \E c \in Slots : RetryFailedGetPages(c)
  \/ \E c \in Slots : RetryFailedUpdatePageStatus(c)
  \/ \E c \in Slots : RetryFailedPerformOCR(c)
  \/ \E c \in Slots : RetryFailedUpdatePage(c)
  \/ \E c \in Slots : RetryFailedCatch(c)
  \/ \E c \in Slots : RetryFailedUpdateProject(c)

Spec == Init /\ [][Next]_vars

(* ---- the router when every awaited call returns ----                    *)
(* The continuation of the request in slot c after the await it is          *)
(* suspended at: the event loop resumes a handler once the storage call or  *)
(* the recognizer call it awaits has settled.                               *)
Resume(c) ==
  \/ UploadCreatePage(c)
  \/ UploadUpdateProject(c)
  \/ ProcessOCRGetProject(c)
  \/ ProcessOCRUpdatePageStatus(c)
  \/ ProcessOCRPerformOCR(c)
  \/ ProcessOCRUpdatePage(c)
  \/ ProcessOCRUpdateProject(c)
  \/ ProcessOCRCatch(c)
  \/ RetrySingleGetProject(c)
  \/ RetrySingleUpdatePageStatus(c)
  \/ RetrySinglePerformOCR(c)
  \/ RetrySingleUpdatePage(c)
  \/ RetrySingleUpdateProject(c)
  \/ RetrySingleCatch(c)
  \/ RetryFailedGetPages(c)
  \/ RetryFailedUpdatePageStatus(c)
  \/ RetryFailedPerformOCR(c)
  \/ RetryFailedUpdatePage(c)
  \/ RetryFailedCatch(c)
  \/ RetryFailedUpdateProject(c)

SpecFair == Spec /\ \A c \in Slots : WF_vars(Resume(c))


(* ---- single-page operations on distinct, untouched pages ----           *)
(* The router restricted to processOCR and retrySingle requests that each   *)
(* address a pending page no other such request is working on.              *)
SinglePageOps == {"processOCR", "retrySingle"}

Untouched(pageId) ==
  /\ PageExists(pages, pageId)
  /\ pages[pageId].status = "pending"
  /\ \A d \in Slots : calls[d].op \in SinglePageOps => calls[d].pageId # pageId

ProcessOCRStartUntouched(c, user, pageId) ==
  Untouched(pageId) /\ ProcessOCRStart(c, user, pageId)

RetrySingleStartUntouched(c, user, pageId) ==
  Untouched(pageId) /\ RetrySingleStart(c, user, pageId)

NextDistinct ==
  \/ \E c \in Slots, u \in Users, p \in ProjectIdInputs :
       UploadStart(c, u, p)
  \/ \E c \in Slots : UploadCreatePage(c)
  \/ \E c \in Slots : UploadUpdateProject(c)
  \/ \E c \in Slots, u \in Users, p \in PageIdInputs :
       ProcessOCRStartUntouched(c, u, p)
  \/ \E c \in Slots : ProcessOCRGetProject(c)
  \/ \E c \in Slots : ProcessOCRUpdatePageStatus(c)
  \/ \E c \in Slots : ProcessOCRPerformOCR(c)
  \/ \E c \in Slots : ProcessOCRUpdatePage(c)
  \/ \E c \in Slots : ProcessOCRUpdateProject(c)
  \/ \E c \in Slots : ProcessOCRCatch(c)
  \/ \E c \in Slots, u \in Users, p \in PageIdInputs :
       RetrySingleStartUntouched(c, u, p)
  \/ \E c \in Slots : RetrySingleGetProject(c)
  \/ \E c \in Slots : RetrySingleUpdatePageStatus(c)
  \/ \E c \in Slots : RetrySinglePerformOCR(c)
  \/ \E c \in Slots : RetrySingleUpdatePage(c)
  \/ \E c \in Slots : RetrySingleUpdateProject(c)
  \/ \E c \in Slots : RetrySingleCatch(c)

SpecDistinct == Init /\ [][NextDistinct]_vars

(* ---- requests served one at a time ----                                 *)
(* The router when every request is sent after the previous one has been    *)
(* answered, so that the steps of a handler run with no other handler's     *)
(* steps between them.                                                      *)
Quiescent == \A c \in Slots : calls[c] = NoCall

UploadStartAlone(c, user, projectId) ==
  Quiescent /\ UploadStart(c, user, projectId)

ProcessOCRStartAlone(c, user, pageId) ==
  Quiescent /\ ProcessOCRStart(c, user, pageId)

RetrySingleStartAlone(c, user, pageId) ==
  Quiescent /\ RetrySingleStart(c, user, pageId)

RetryFailedStartAlone(c, user, projectId) ==
  Quiescent /\ RetryFailedStart(c, user, projectId)

NextSerial ==
  \/ \E c \in Slots, u \in Users, p \in ProjectIdInputs :
       UploadStartAlone(c, u, p)
  \/ \E c \in Slots : UploadCreatePage(c)
  \/ \E c \in Slots : UploadUpdateProject(c)
  \/ \E c \in Slots, u \in Users, p \in PageIdInputs :
       ProcessOCRStartAlone(c, u, p)
  \/ \E c \in Slots : ProcessOCRGetProject(c)
  \/ \E c \in Slots : ProcessOCRUpdatePageStatus(c)
  \/ \E c \in Slots : ProcessOCRPerformOCR(c)
  \/ \E c \in Slots : ProcessOCRUpdatePage(c)
  \/ \E c \in Slots : ProcessOCRUpdateProject(c)
  \/ \E c \in Slots : ProcessOCRCatch(c)
  \/ \E c \in Slots, u \in Users, p \in PageIdInputs :
       RetrySingleStartAlone(c, u, p)
  \/ \E c \in Slots : RetrySingleGetProject(c)
  \/ \E c \in Slots : RetrySingleUpdatePageStatus(c)
  \/ \E c \in Slots : RetrySinglePerformOCR(c)
  \/ \E c \in Slots : RetrySingleUpdatePage(c)
  \/ \E c \in Slots : RetrySingleUpdateProject(c)
  \/ \E c \in Slots : RetrySingleCatch(c)
  \/ \E c \in Slots, u \in Users, p \in ProjectIdInputs :
       RetryFailedStartAlone(c, u, p)
  \/ \E c \in Slots : RetryFailedGetPages(c)
  \/ \E c \in Slots : RetryFailedUpdatePageStatus(c)
  \/ \E c \in Slots : RetryFailedPerformOCR(c)
  \/ \E c \in Slots : RetryFailedUpdatePage(c)
  \/ \E c \in Slots : RetryFailedCatch(c)
  \/ \E c \in Slots : RetryFailedUpdateProject(c)

SpecSerial == Init /\ [][NextSerial]_vars

(* ---- retryWithBackoff ----                                              *)
(* One activation of retryWithBackoff(fn, maxRetries, initialDelay), cut at *)
(* its two awaits: fn() and the setTimeout promise.  invoker keeps the      *)
(* activation's locals, and for the observer the number of calls of fn and  *)
(* the delays passed to setTimeout so far.                                  *)
(* An error message is the sequence of its parts, cut so that the two       *)
(* needles of the 500 test are whole parts; includes is                     *)
(* String.prototype.includes on that sequence.                              *)
maxRetriesDefault == 3
initialDelayDefault == 1000

MaxRetriesInput == 3

MaxRetriesInputs == (0 .. MaxRetriesInput) \cup {maxRetriesDefault}
InitialDelayInputs == {initialDelayDefault, 250}

TimeoutErrors ==
  { <<"The operation was aborted due to timeout">>,
    <<"LLM invoke failed: ", "504", " ", "Gateway Timeout">> }

RecognizerErrors ==
  { <<"LLM invoke failed: ", "500", " ", "Internal Server Error">>,
    <<"Internal Server Error">>,
    <<"LLM invoke failed: ", "503", " ", "Service Unavailable">>,
    <<"LLM invoke failed: ", "400", " ", "Bad Request">> } \cup TimeoutErrors

NoError == <<>>

FnOutcomes ==
  { [ok |-> TRUE, value |-> "response", error |-> NoError] }
    \cup { [ok |-> FALSE, value |-> NULL, error |-> e] : e \in RecognizerErrors }

includes(message, needle) == \E k \in 1 .. Len(message) : message[k] = needle

RECURSIVE pow(_, _)
pow(base, exponent) == IF exponent = 0 THEN 1 ELSE base * pow(base, exponent - 1)

delayConstant(initialDelay, attempt) == initialDelay

delay(initialDelay, attempt) == initialDelay * pow(2, attempt)

retryWithBackoff(maxRetries, initialDelay) ==
  /\ invoker.pc \in {"none", "returned", "thrown"}
  /\ invoker' = [pc |-> IF 0 < maxRetries THEN "fn" ELSE "thrown",
                 maxRetries |-> maxRetries, initialDelay |-> initialDelay,
                 attempt |-> 0, lastError |-> NoError,
                 fnCalls |-> IF 0 < maxRetries THEN 1 ELSE 0,
                 delays |-> <<>>, returned |-> NULL, thrown |-> NoError]
  /\ UNCHANGED <<extractor, pages, projects, calls, started, ret, client>>

RetryWithBackoffFnSettlesRetryAll(o) ==
  /\ invoker.pc = "fn"
  /\ IF o.ok
       THEN invoker' = [invoker EXCEPT !.pc = "returned", !.returned = o.value]
       ELSE IF invoker.attempt = invoker.maxRetries - 1
              THEN invoker' = [invoker EXCEPT !.pc = "thrown", !.lastError = o.error,
                                              !.thrown = o.error]
              ELSE invoker' = [invoker EXCEPT
                     !.pc = "setTimeout", !.lastError = o.error,
                     !.delays = Append(@, delay(invoker.initialDelay, invoker.attempt))]
  /\ UNCHANGED <<extractor, pages, projects, calls, started, ret, client>>

RetryWithBackoffFnSettlesWaitAfterLast(o) ==
  /\ invoker.pc = "fn"
  /\ IF o.ok
       THEN invoker' = [invoker EXCEPT !.pc = "returned", !.returned = o.value]
       ELSE LET errorMessage == o.error
                is500Error == \/ includes(errorMessage, "500")
                              \/ includes(errorMessage, "Internal Server Error")
            IN IF ~is500Error
                 THEN invoker' = [invoker EXCEPT !.pc = "thrown", !.lastError = o.error,
                                                 !.thrown = o.error]
                 ELSE invoker' = [invoker EXCEPT
                        !.pc = "setTimeout", !.lastError = o.error,
                        !.delays = Append(@, delay(invoker.initialDelay, invoker.attempt))]
  /\ UNCHANGED <<extractor, pages, projects, calls, started, ret, client>>

RetryWithBackoffFnSettles(o) ==
  /\ invoker.pc = "fn"
  /\ IF o.ok
       THEN invoker' = [invoker EXCEPT !.pc = "returned", !.returned = o.value]
       ELSE LET errorMessage == o.error
                is500Error == \/ includes(errorMessage, "500")
                              \/ includes(errorMessage, "Internal Server Error")
            IN IF ~is500Error \/ invoker.attempt = invoker.maxRetries - 1
                 THEN invoker' = [invoker EXCEPT !.pc = "thrown", !.lastError = o.error,
                                                 !.thrown = o.error]
                 ELSE invoker' = [invoker EXCEPT
                        !.pc = "setTimeout", !.lastError = o.error,
                        !.delays = Append(@, delay(invoker.initialDelay, invoker.attempt))]
  /\ UNCHANGED <<extractor, pages, projects, calls, started, ret, client>>

RetryWithBackoffTimerFires ==
  /\ invoker.pc = "setTimeout"
  /\ LET attempt == invoker.attempt + 1 IN
       IF attempt < invoker.maxRetries
         THEN invoker' = [invoker EXCEPT !.pc = "fn", !.attempt = attempt,
                                         !.fnCalls = @ + 1]
         ELSE invoker' = [invoker EXCEPT !.pc = "thrown", !.attempt = attempt,
                                         !.thrown = invoker.lastError]
  /\ UNCHANGED <<extractor, pages, projects, calls, started, ret, client>>

NextInvoker ==
  \/ \E m \in MaxRetriesInputs, d \in InitialDelayInputs : retryWithBackoff(m, d)
  \/ \E o \in FnOutcomes : RetryWithBackoffFnSettles(o)
  \/ RetryWithBackoffTimerFires

SpecInvoker == Init /\ [][NextInvoker]_vars

(* setTimeout fires its callback after the delay, and every call of the     *)
(* recognizer is taken to settle.                                           *)
SpecInvokerFair ==
  /\ SpecInvoker
  /\ WF_vars(\E o \in FnOutcomes : RetryWithBackoffFnSettles(o))
  /\ WF_vars(RetryWithBackoffTimerFires)

(* ---- pages.reorder and pages.updateOrder ----                           *)
(* A label is spelled out as its characters for parseInt and localeCompare. *)
(* The labels are ones the extractor returns: digit runs and lower-case     *)
(* Roman numerals.                                                          *)
ReorderLabels == {"2", "10", "ix", "v"}

Chars ==
  "2" :> <<"2">> @@ "7" :> <<"7">> @@ "10" :> <<"1", "0">> @@ "ix" :> <<"i", "x">>
    @@ "v" :> <<"v">>

DigitChars == <<"0", "1", "2", "3", "4", "5", "6", "7", "8", "9">>

IsDigit(ch) == \E d \in 1 .. Len(DigitChars) : DigitChars[d] = ch

DigitValue(ch) == (CHOOSE d \in 1 .. Len(DigitChars) : DigitChars[d] = ch) - 1

(* parseInt(string, 10) on a string without blanks or sign: the value of    *)
(* the leading run of digits, NaN when the string starts with no digit.     *)
RECURSIVE LeadingDigits(_)
LeadingDigits(chars) ==
  IF chars = <<>> \/ ~IsDigit(Head(chars)) THEN 0 ELSE 1 + LeadingDigits(Tail(chars))

RECURSIVE DecimalValue(_)
DecimalValue(chars) ==
  IF chars = <<>>
    THEN 0
    ELSE 10 * DecimalValue(SubSeq(chars, 1, Len(chars) - 1)) + DigitValue(chars[Len(chars)])

parseInt(chars) ==
  LET n == LeadingDigits(chars) IN
    IF n = 0 THEN [nan |-> TRUE, value |-> 0]
             ELSE [nan |-> FALSE, value |-> DecimalValue(SubSeq(chars, 1, n))]

isNaN(number) == number.nan

(* localeCompare on these strings: character by character in collation     *)
(* order, digits before letters and letters by the alphabet, a proper       *)
(* prefix before the longer string.                                         *)
Collation ==
  DigitChars \o <<"c", "d", "i", "l", "m", "v", "x">>

CollationRank(ch) == CHOOSE r \in 1 .. Len(Collation) : Collation[r] = ch

RECURSIVE localeCompare(_, _)
localeCompare(a, b) ==
  IF a = <<>> /\ b = <<>> THEN 0
  ELSE IF a = <<>> THEN -1
  ELSE IF b = <<>> THEN 1
  ELSE IF CollationRank(Head(a)) < CollationRank(Head(b)) THEN -1
  ELSE IF CollationRank(Head(a)) > CollationRank(Head(b)) THEN 1
  ELSE localeCompare(Tail(a), Tail(b))

(* romanToArabic: from the last character to the first, a value smaller    *)
(* than the one to its right is subtracted, any other is added; null for a  *)
(* character that is no Roman digit.                                        *)
romanMap ==
  "I" :> 1 @@ "V" :> 5 @@ "X" :> 10 @@ "L" :> 50 @@ "C" :> 100 @@ "D" :> 500
    @@ "M" :> 1000

RECURSIVE romanLoopAdditive(_, _, _, _)
romanLoopAdditive(roman, i, result, prevValue) ==
  IF i = 0
    THEN [null |-> FALSE, value |-> result]
    ELSE IF roman[i] \notin DOMAIN romanMap
      THEN [null |-> TRUE, value |-> 0]
      ELSE romanLoopAdditive(roman, i - 1, result + romanMap[roman[i]], romanMap[roman[i]])

RECURSIVE romanLoopSubtractsEqual(_, _, _, _)
romanLoopSubtractsEqual(roman, i, result, prevValue) ==
  IF i = 0
    THEN [null |-> FALSE, value |-> result]
    ELSE IF roman[i] \notin DOMAIN romanMap
      THEN [null |-> TRUE, value |-> 0]
      ELSE LET currentValue == romanMap[roman[i]] IN
             romanLoopSubtractsEqual(roman, i - 1,
                       IF currentValue <= prevValue THEN result - currentValue
                                                    ELSE result + currentValue,
                       currentValue)

RECURSIVE romanLoop(_, _, _, _)
romanLoop(roman, i, result, prevValue) ==
  IF i = 0
    THEN [null |-> FALSE, value |-> result]
    ELSE IF roman[i] \notin DOMAIN romanMap
      THEN [null |-> TRUE, value |-> 0]
      ELSE LET currentValue == romanMap[roman[i]] IN
             romanLoop(roman, i - 1,
                       IF currentValue < prevValue THEN result - currentValue
                                                   ELSE result + currentValue,
                       currentValue)

romanToArabic(roman) == romanLoop(roman, Len(roman), 0, 0)

UpperCase ==
  "i" :> "I" @@ "v" :> "V" @@ "x" :> "X" @@ "l" :> "L" @@ "c" :> "C" @@ "d" :> "D"
    @@ "m" :> "M"

toUpperCase(chars) ==
  [k \in 1 .. Len(chars) |->
     IF chars[k] \in DOMAIN UpperCase THEN UpperCase[chars[k]] ELSE chars[k]]

(* The comparator of reorder on the pages with ids a and b of the list ps.  *)
compare(ps, a, b) ==
  IF ps[a].detectedPageNumber # NULL /\ ps[b].detectedPageNumber = NULL THEN -1
  ELSE IF ps[a].detectedPageNumber = NULL /\ ps[b].detectedPageNumber # NULL THEN 1
  ELSE IF ps[a].detectedPageNumber = NULL /\ ps[b].detectedPageNumber = NULL THEN a - b
  ELSE LET aNum == parseInt(Chars[ps[a].detectedPageNumber])
           bNum == parseInt(Chars[ps[b].detectedPageNumber])
       IN IF ~isNaN(aNum) /\ ~isNaN(bNum)
            THEN aNum.value - bNum.value
            ELSE localeCompare(Chars[ps[a].detectedPageNumber],
                               Chars[ps[b].detectedPageNumber])

(* Array.prototype.sort is stable: elements that compare equal keep the     *)
(* order they have in the list that is sorted.                              *)
RECURSIVE insertBeforeEqual(_, _, _)
insertBeforeEqual(ps, sorted, x) ==
  IF sorted = <<>>
    THEN <<x>>
    ELSE IF compare(ps, sorted[Len(sorted)], x) < 0
      THEN Append(sorted, x)
      ELSE Append(insertBeforeEqual(ps, SubSeq(sorted, 1, Len(sorted) - 1), x),
                  sorted[Len(sorted)])

RECURSIVE insert(_, _, _)
insert(ps, sorted, x) ==
  IF sorted = <<>>
    THEN <<x>>
    ELSE IF compare(ps, sorted[Len(sorted)], x) <= 0
      THEN Append(sorted, x)
      ELSE Append(insert(ps, SubSeq(sorted, 1, Len(sorted) - 1), x), sorted[Len(sorted)])

RECURSIVE sort(_, _)
sort(ps, list) ==
  IF list = <<>>
    THEN <<>>
    ELSE insert(ps, sort(ps, SubSeq(list, 1, Len(list) - 1)), list[Len(list)])

Success(op, input, user) ==
  [op |-> op, input |-> input, user |-> user, outcome |-> "return", success |-> TRUE]

ReorderStart(c, user, projectId) ==
  /\ FreeSlot(c)
  /\ IF ~ProjectExists(projects, projectId)
       THEN /\ ret' = Throw("reorder", projectId, user, "Project not found")
            /\ calls' = calls
       ELSE IF projects[projectId].userId # user
       THEN /\ ret' = Throw("reorder", projectId, user, "Unauthorized")
            /\ calls' = calls
       ELSE /\ calls' = [calls EXCEPT ![c] =
                  [op |-> "reorder", pc |-> "getPages", user |-> user,
                   projectId |-> projectId]]
            /\ ret' = NoRet
  /\ UNCHANGED <<extractor, invoker, client, pages, projects, started>>

ReorderGetPages(c) ==
  /\ calls[c].op = "reorder"
  /\ calls[c].pc = "getPages"
  /\ LET sortedPages == sort(pages, getPagesByProjectId(pages, calls[c].projectId)) IN
       IF Len(sortedPages) = 0
         THEN /\ ret' = Success("reorder", calls[c].projectId, calls[c].user)
              /\ calls' = [calls EXCEPT ![c] = NoCall]
         ELSE /\ calls' = [calls EXCEPT ![c] =
                    [calls[c] EXCEPT !.pc = "updatePage"]
                      @@ [sortedPages |-> sortedPages, i |-> 0]]
              /\ ret' = NoRet
  /\ UNCHANGED <<extractor, invoker, client, pages, projects, started>>

ReorderUpdatePageOneBased(c) ==
  /\ calls[c].op = "reorder"
  /\ calls[c].pc = "updatePage"
  /\ pages' = updatePage(pages, calls[c].sortedPages[calls[c].i + 1],
                         [sortOrder |-> calls[c].i + 1])
  /\ IF calls[c].i + 1 < Len(calls[c].sortedPages)
       THEN /\ calls' = [calls EXCEPT ![c].i = @ + 1]
            /\ ret' = NoRet
       ELSE /\ calls' = [calls EXCEPT ![c] = NoCall]
            /\ ret' = Success("reorder", calls[c].projectId, calls[c].user)
  /\ UNCHANGED <<extractor, invoker, client, projects, started>>

ReorderUpdatePage(c) ==
  /\ calls[c].op = "reorder"
  /\ calls[c].pc = "updatePage"
  /\ pages' = updatePage(pages, calls[c].sortedPages[calls[c].i + 1],
                         [sortOrder |-> calls[c].i])
  /\ IF calls[c].i + 1 < Len(calls[c].sortedPages)
       THEN /\ calls' = [calls EXCEPT ![c].i = @ + 1]
            /\ ret' = NoRet
       ELSE /\ calls' = [calls EXCEPT ![c] = NoCall]
            /\ ret' = Success("reorder", calls[c].projectId, calls[c].user)
  /\ UNCHANGED <<extractor, invoker, client, projects, started>>

(* updateOrder writes the position of every entry of pageOrders in turn; an *)
(* entry whose pageId is no page updates no record.                         *)
PageOrderInputs ==
  [pageId : PageIdInputs, sortOrder : 0 .. (MaxPages - 1)]

PageOrdersInputs ==
  UNION { [1 .. n -> PageOrderInputs] : n \in 0 .. MaxPages }

UpdateOrderStart(c, user, projectId, pageOrders) ==
  /\ FreeSlot(c)
  /\ IF ~ProjectExists(projects, projectId)
       THEN /\ ret' = Throw("updateOrder", projectId, user, "Project not found")
            /\ calls' = calls
       ELSE IF projects[projectId].userId # user
       THEN /\ ret' = Throw("updateOrder", projectId, user, "Unauthorized")
            /\ calls' = calls
       ELSE IF Len(pageOrders) = 0
       THEN /\ ret' = Success("updateOrder", projectId, user)
            /\ calls' = calls
       ELSE /\ calls' = [calls EXCEPT ![c] =
                  [op |-> "updateOrder", pc |-> "updatePage", user |-> user,
                   projectId |-> projectId, pageOrders |-> pageOrders, i |-> 1]]
            /\ ret' = NoRet
  /\ UNCHANGED <<extractor, invoker, client, pages, projects, started>>

UpdateOrderUpdatePage(c) ==
  /\ calls[c].op = "updateOrder"
  /\ calls[c].pc = "updatePage"
  /\ LET entry == calls[c].pageOrders[calls[c].i] IN
       pages' = IF PageExists(pages, entry.pageId)
                  THEN updatePage(pages, entry.pageId, [sortOrder |-> entry.sortOrder])
                  ELSE pages
  /\ IF calls[c].i < Len(calls[c].pageOrders)
       THEN /\ calls' = [calls EXCEPT ![c].i = @ + 1]
            /\ ret' = NoRet
       ELSE /\ calls' = [calls EXCEPT ![c] = NoCall]
            /\ ret' = Success("updateOrder", calls[c].projectId, calls[c].user)
  /\ UNCHANGED <<extractor, invoker, client, projects, started>>

(* The ordering procedures on a project whose pages have been uploaded and  *)
(* recognized, with or without a label, one request at a time.              *)
RecognizedPages ==
  { [projectId |-> 1, status |-> "completed", extractedText |-> "T1",
     detectedPageNumber |-> l, sortKey |-> NULL,
     formattingData |-> "blocks of T1", confidence |-> NULL,
     errorMessage |-> NULL, sortOrder |-> 0] : l \in ReorderLabels \cup {NULL} }

InitReorder ==
  /\ pages \in UNION { [1 .. n -> RecognizedPages] : n \in 0 .. MaxPages }
  /\ projects = [p \in ProjectIds |->
                   [userId |-> ProjectOwner, totalPages |-> Len(pages),
                    processedPages |-> Len(pages)]]
  /\ calls = [c \in Slots |-> NoCall]
  /\ started = 0
  /\ ret = NoRet
  /\ invoker = NoInvocation
  /\ client = ClientMounted
  /\ extractor = NoExtraction

ReorderStartAlone(c, user, projectId) ==
  Quiescent /\ ReorderStart(c, user, projectId)

UpdateOrderStartAlone(c, user, projectId, pageOrders) ==
  Quiescent /\ UpdateOrderStart(c, user, projectId, pageOrders)

NextReorder ==
  \/ \E c \in Slots, u \in Users, p \in ProjectIdInputs : ReorderStartAlone(c, u, p)
  \/ \E c \in Slots : ReorderGetPages(c)
  \/ \E c \in Slots : ReorderUpdatePage(c)
  \/ \E c \in Slots, u \in Users, p \in ProjectIdInputs, o \in PageOrdersInputs :
       UpdateOrderStartAlone(c, u, p, o)
  \/ \E c \in Slots : UpdateOrderUpdatePage(c)

SpecReorder == InitReorder /\ [][NextReorder]_vars

(* ---- upload, reorder and updateOrder together ----                      *)
(* Uploads and the two ordering procedures on one project, requests in      *)
(* flight at the same time taking their steps in any order.                 *)
NextOrder ==
  \/ \E c \in Slots, u \in Users, p \in ProjectIdInputs : UploadStart(c, u, p)
  \/ \E c \in Slots : UploadCreatePage(c)
  \/ \E c \in Slots : UploadUpdateProject(c)
  \/ \E c \in Slots, u \in Users, p \in ProjectIdInputs : ReorderStart(c, u, p)
  \/ \E c \in Slots : ReorderGetPages(c)
  \/ \E c \in Slots : ReorderUpdatePage(c)
  \/ \E c \in Slots, u \in Users, p \in ProjectIdInputs, o \in PageOrdersInputs :
       UpdateOrderStart(c, u, p, o)
  \/ \E c \in Slots : UpdateOrderUpdatePage(c)

SpecOrder == Init /\ [][NextOrder]_vars

(* ---- export.generate ----                                                *)
(* The handler reads the project, reads its pages, keeps the completed      *)
(* ones and hands them to exportDocument; the document comes back encoded   *)
(* in base64 under the project's title.  exportDocument is taken to render  *)
(* the pages it is given, in the order given.                               *)
Formats == {"md", "txt", "pdf", "docx"}

mimeTypes ==
  "md" :> "text/markdown" @@ "txt" :> "text/plain" @@ "pdf" :> "application/pdf"
    @@ "docx" :> "application/vnd.openxmlformats-officedocument.wordprocessingml.document"

getMimeType(format) ==
  IF format \in DOMAIN mimeTypes THEN mimeTypes[format] ELSE "application/octet-stream"

ProjectTitle == [p \in ProjectIds |-> "Book"]

(* The pages of the list that the filter keeps, each with its id.           *)
completedPagesNotFailed(ps, list) ==
  LET kept == SelectSeq(list, LAMBDA k : ps[k].status # "failed") IN
    [n \in 1 .. Len(kept) |-> [id |-> kept[n]] @@ ps[kept[n]]]

completedPages(ps, list) ==
  LET kept == SelectSeq(list, LAMBDA k : ps[k].status = "completed") IN
    [n \in 1 .. Len(kept) |-> [id |-> kept[n]] @@ ps[kept[n]]]

exportDocument(list, format) ==
  [format |-> format,
   pages |-> [n \in 1 .. Len(list) |->
                [id |-> list[n].id, text |-> list[n].extractedText,
                 label |-> list[n].detectedPageNumber]]]

base64(result) == [encoding |-> "base64", of |-> result]

ExportStart(c, user, projectId, format) ==
  /\ FreeSlot(c)
  /\ IF ~ProjectExists(projects, projectId)
       THEN /\ ret' = Throw("export", projectId, user, "Project not found")
            /\ calls' = calls
       ELSE IF projects[projectId].userId # user
       THEN /\ ret' = Throw("export", projectId, user, "Unauthorized")
            /\ calls' = calls
       ELSE /\ calls' = [calls EXCEPT ![c] =
                  [op |-> "export", pc |-> "getPages", user |-> user,
                   projectId |-> projectId, format |-> format]]
            /\ ret' = NoRet
  /\ UNCHANGED <<extractor, invoker, client, pages, projects, started>>

ExportGetPages(c) ==
  /\ calls[c].op = "export"
  /\ calls[c].pc = "getPages"
  /\ LET completed == completedPages(pages, getPagesByProjectId(pages, calls[c].projectId)) IN
       IF Len(completed) = 0
         THEN /\ ret' = Throw("export", calls[c].projectId, calls[c].user,
                              "No completed pages to export")
              /\ calls' = [calls EXCEPT ![c] = NoCall]
         ELSE /\ calls' = [calls EXCEPT ![c] =
                    [calls[c] EXCEPT !.pc = "exportDocument"]
                      @@ [completedPages |-> completed]]
              /\ ret' = NoRet
  /\ UNCHANGED <<extractor, invoker, client, pages, projects, started>>

ExportDocument(c) ==
  /\ calls[c].op = "export"
  /\ calls[c].pc = "exportDocument"
  /\ ret' = [op |-> "export", input |-> calls[c].projectId, user |-> calls[c].user,
             outcome |-> "return",
             data |-> base64(exportDocument(calls[c].completedPages, calls[c].format)),
             filename |-> ProjectTitle[calls[c].projectId] \o "." \o calls[c].format,
             mimeType |-> getMimeType(calls[c].format)]
  /\ calls' = [calls EXCEPT ![c] = NoCall]
  /\ UNCHANGED <<extractor, invoker, client, pages, projects, started>>

(* Export of a project whose pages are in any of the four statuses.         *)
PagesInAnyStatus ==
  RecognizedPages
    \cup { [projectId |-> 1, status |-> s, extractedText |-> NULL,
            detectedPageNumber |-> NULL, sortKey |-> NULL, formattingData |-> NULL,
            confidence |-> NULL, errorMessage |-> NULL, sortOrder |-> 0]
             : s \in {"pending", "processing"} }
    \cup { [projectId |-> 1, status |-> "failed", extractedText |-> NULL,
            detectedPageNumber |-> NULL, sortKey |-> NULL, formattingData |-> NULL,
            confidence |-> NULL, errorMessage |-> e, sortOrder |-> 0]
             : e \in OcrErrors }

InitExport ==
  /\ pages \in UNION { [1 .. n -> PagesInAnyStatus] : n \in 0 .. MaxPages }
  /\ projects = [p \in ProjectIds |->
                   [userId |-> ProjectOwner, totalPages |-> Len(pages),
                    processedPages |->
                      Cardinality({k \in 1 .. Len(pages) : pages[k].status = "completed"})]]
  /\ calls = [c \in Slots |-> NoCall]
  /\ started = 0
  /\ ret = NoRet
  /\ invoker = NoInvocation
  /\ client = ClientMounted
  /\ extractor = NoExtraction

NextExport ==
  \/ \E c \in Slots, u \in Users, p \in ProjectIdInputs, f \in Formats :
       ExportStart(c, u, p, f)
  \/ \E c \in Slots : ExportGetPages(c)
  \/ \E c \in Slots : ExportDocument(c)

SpecExport == InitExport /\ [][NextExport]_vars

(* ---- pages added to an ordered project ----                             *)
(* A project with recognized pages that is ordered by reorder, to which a   *)
(* page is uploaded and recognized, one request at a time.                  *)
NextAddPage ==
  \/ \E c \in Slots, u \in Users, p \in ProjectIdInputs : ReorderStartAlone(c, u, p)
  \/ \E c \in Slots : ReorderGetPages(c)
  \/ \E c \in Slots : ReorderUpdatePage(c)
  \/ \E c \in Slots, u \in Users, p \in ProjectIdInputs : UploadStartAlone(c, u, p)
  \/ \E c \in Slots : UploadCreatePage(c)
  \/ \E c \in Slots : UploadUpdateProject(c)
  \/ \E c \in Slots, u \in Users, p \in PageIdInputs : ProcessOCRStartAlone(c, u, p)
  \/ \E c \in Slots : ProcessOCRGetProject(c)
  \/ \E c \in Slots : ProcessOCRUpdatePageStatus(c)
  \/ \E c \in Slots : ProcessOCRPerformOCR(c)
  \/ \E c \in Slots : ProcessOCRUpdatePage(c)
  \/ \E c \in Slots : ProcessOCRUpdateProject(c)
  \/ \E c \in Slots : ProcessOCRCatch(c)

(* The project holds at most one page, at position 0, before pages are     *)
(* added.                                                                   *)
InitAddPage == InitReorder /\ Len(pages) <= 1

SpecAddPage == InitAddPage /\ [][NextAddPage]_vars

(* ---- two users ----                                                      *)
(* Project 1 of the owner, still empty, and project 2 of the other user     *)
(* with one uploaded page; every procedure of the pages router, called by   *)
(* either user, one request at a time.                                      *)
InitTenants ==
  /\ pages = createPage(<<>>, 2)
  /\ projects = [p \in {1, 2} |->
                   [userId |-> IF p = 1 THEN ProjectOwner ELSE "other",
                    totalPages |-> IF p = 1 THEN 0 ELSE 1, processedPages |-> 0]]
  /\ calls = [c \in Slots |-> NoCall]
  /\ started = 0
  /\ ret = NoRet
  /\ invoker = NoInvocation
  /\ client = ClientMounted
  /\ extractor = NoExtraction

NextTenants == NextSerial \/ NextReorder

SpecTenants == InitTenants /\ [][NextTenants]_vars

(* ---- the ProjectDetail page ----                                        *)
(* The component's state and its three handlers.  data is the status of     *)
(* each page as the last fetch of the project gave it; a handler that has   *)
(* been started is kept in handlers with its locals until its finally       *)
(* block has run.  A handler awaits one retrySingle mutation at a time: the *)
(* request arrives at the router in a later step, the router's steps are    *)
(* those of pages.retrySingle, and the response is delivered to a waiting   *)
(* handler before anything else happens.                                    *)
Target(h) == h.list[h.i]

AwaitingMutation(pageId) ==
  { h \in client.handlers : h.pc = "mutate" /\ Target(h) = pageId }

InFlightFor(pageId) ==
  { c \in Slots : calls[c].op = "retrySingle" /\ calls[c].pageId = pageId }

PagesWithStatus(data, status) ==
  SelectSeq([i \in 1 .. Len(data) |-> i], LAMBDA i : data[i] = status)

Handler(kind, list) ==
  [id |-> client.clicks + 1, kind |-> kind, list |-> list, i |-> 1,
   pc |-> "mutate", successCount |-> 0, failCount |-> 0]

handleRetrySingle(pageId) ==
  /\ ret = NoRet
  /\ client.clicks < MaxCalls
  /\ pageId \in 1 .. Len(client.data)
  /\ client.data[pageId] = "failed"
  /\ client.retryingPageId # pageId
  /\ client' = [client EXCEPT
       !.retryingPageId = pageId,
       !.clicks = @ + 1,
       !.handlers = @ \cup {Handler("handleRetrySingle", <<pageId>>)}]
  /\ UNCHANGED <<extractor, pages, projects, calls, started, ret, invoker>>

handleRetryFailed ==
  /\ ret = NoRet
  /\ client.clicks < MaxCalls
  /\ ~client.isRetrying
  /\ LET failedPages == PagesWithStatus(client.data, "failed") IN
       /\ Len(failedPages) > 0
       /\ client' = [client EXCEPT
            !.isRetrying = TRUE,
            !.retryingProgress = [current |-> 0, total |-> Len(failedPages)],
            !.clicks = @ + 1,
            !.handlers = @ \cup {Handler("handleRetryFailed", failedPages)}]
  /\ UNCHANGED <<extractor, pages, projects, calls, started, ret, invoker>>

handleProcessPending ==
  /\ ret = NoRet
  /\ client.clicks < MaxCalls
  /\ ~client.isProcessing
  /\ LET pendingPages == PagesWithStatus(client.data, "pending") IN
       /\ Len(pendingPages) > 0
       /\ client' = [client EXCEPT
            !.isProcessing = TRUE,
            !.processingProgress = [current |-> 0, total |-> Len(pendingPages)],
            !.clicks = @ + 1,
            !.handlers = @ \cup {Handler("handleProcessPending", pendingPages)}]
  /\ UNCHANGED <<extractor, pages, projects, calls, started, ret, invoker>>

MutationArrives(c, pageId) ==
  /\ ret = NoRet
  /\ Cardinality(InFlightFor(pageId)) < Cardinality(AwaitingMutation(pageId))
  /\ RetrySingleStart(c, ProjectOwner, pageId)

MutationRuns(c) ==
  /\ ret = NoRet
  /\ \/ RetrySingleGetProject(c)
     \/ RetrySingleUpdatePageStatus(c)
     \/ RetrySinglePerformOCR(c)
     \/ RetrySingleUpdatePage(c)
     \/ RetrySingleUpdateProject(c)
     \/ RetrySingleCatch(c)

MutationSettlesStopsOnRejection(h) ==
  /\ h \in client.handlers
  /\ h.pc = "mutate"
  /\ ret.op = "retrySingle"
  /\ ret.input = Target(h)
  /\ LET resolved == ret.outcome = "return"
         counted == [h EXCEPT !.successCount = IF resolved THEN @ + 1 ELSE @,
                              !.failCount = IF resolved THEN @ ELSE @ + 1]
         progress == [current |-> h.i, total |-> Len(h.list)]
         next == IF h.i < Len(h.list) /\ resolved
                   THEN [counted EXCEPT !.i = @ + 1]
                   ELSE [counted EXCEPT !.pc = "refetch"]
     IN client' =
          IF h.kind = "handleRetryFailed"
            THEN [client EXCEPT !.retryingProgress = progress,
                                !.handlers = (@ \ {h}) \cup {next}]
          ELSE IF h.kind = "handleProcessPending"
            THEN [client EXCEPT !.processingProgress = progress,
                                !.handlers = (@ \ {h}) \cup {next}]
          ELSE IF resolved
            THEN [client EXCEPT !.handlers = (@ \ {h}) \cup {[h EXCEPT !.pc = "refetch"]}]
            ELSE [client EXCEPT !.retryingPageId = 0, !.handlers = @ \ {h}]
  /\ ret' = NoRet
  /\ UNCHANGED <<extractor, pages, projects, calls, started, invoker>>

(* The awaited mutation resolves or rejects.  A loop counts it, sets its    *)
(* progress and sends the next mutation or goes on to refetch;              *)
(* handleRetrySingle goes on to refetch when it resolved and to its finally *)
(* block when it rejected.                                                  *)
MutationSettles(h) ==
  /\ h \in client.handlers
  /\ h.pc = "mutate"
  /\ ret.op = "retrySingle"
  /\ ret.input = Target(h)
  /\ LET resolved == ret.outcome = "return"
         counted == [h EXCEPT !.successCount = IF resolved THEN @ + 1 ELSE @,
                              !.failCount = IF resolved THEN @ ELSE @ + 1]
         progress == [current |-> h.i, total |-> Len(h.list)]
         next == IF h.i < Len(h.list) THEN [counted EXCEPT !.i = @ + 1]
                                      ELSE [counted EXCEPT !.pc = "refetch"]
     IN client' =
          IF h.kind = "handleRetryFailed"
            THEN [client EXCEPT !.retryingProgress = progress,
                                !.handlers = (@ \ {h}) \cup {next}]
          ELSE IF h.kind = "handleProcessPending"
            THEN [client EXCEPT !.processingProgress = progress,
                                !.handlers = (@ \ {h}) \cup {next}]
          ELSE IF resolved
            THEN [client EXCEPT !.handlers = (@ \ {h}) \cup {[h EXCEPT !.pc = "refetch"]}]
            ELSE [client EXCEPT !.retryingPageId = 0, !.handlers = @ \ {h}]
  /\ ret' = NoRet
  /\ UNCHANGED <<extractor, pages, projects, calls, started, invoker>>

RefetchKeepsFlag(h) ==
  /\ ret = NoRet
  /\ h \in client.handlers
  /\ h.pc = "refetch"
  /\ client' = [client EXCEPT !.data = [i \in 1 .. Len(pages) |-> pages[i].status],
                              !.handlers = @ \ {h}]
  /\ UNCHANGED <<extractor, pages, projects, calls, started, ret, invoker>>

(* await refetch(), then the finally block. *)
Refetch(h) ==
  /\ ret = NoRet
  /\ h \in client.handlers
  /\ h.pc = "refetch"
  /\ LET fetched == [client EXCEPT !.data = [i \in 1 .. Len(pages) |-> pages[i].status],
                                   !.handlers = @ \ {h}]
     IN client' =
          IF h.kind = "handleRetryFailed"
            THEN [fetched EXCEPT !.isRetrying = FALSE, !.retryingProgress = NoProgress]
          ELSE IF h.kind = "handleProcessPending"
            THEN [fetched EXCEPT !.isProcessing = FALSE, !.processingProgress = NoProgress]
            ELSE [fetched EXCEPT !.retryingPageId = 0]
  /\ UNCHANGED <<extractor, pages, projects, calls, started, ret, invoker>>

(* The page is opened on a project whose pages are uploaded, some of them   *)
(* failed, and the project has been fetched.                                *)
UploadedPages ==
  { [projectId |-> 1, status |-> st, extractedText |-> NULL,
     detectedPageNumber |-> NULL, sortKey |-> NULL, formattingData |-> NULL,
     confidence |-> NULL,
     errorMessage |-> IF st = "failed" THEN OcrFailure("bad image") ELSE NULL,
     sortOrder |-> 0] : st \in {"pending", "failed"} }

InitClient ==
  /\ pages \in UNION { [1 .. n -> UploadedPages] : n \in 1 .. MaxPages }
  /\ projects = [p \in ProjectIds |->
                   [userId |-> ProjectOwner, totalPages |-> Len(pages),
                    processedPages |-> 0]]
  /\ calls = [c \in Slots |-> NoCall]
  /\ started = 0
  /\ ret = NoRet
  /\ invoker = NoInvocation
  /\ client = [ClientMounted EXCEPT !.data = [i \in 1 .. Len(pages) |-> pages[i].status]]
  /\ extractor = NoExtraction

NextClient ==
  \/ \E p \in PageIdInputs : handleRetrySingle(p)
  \/ handleRetryFailed
  \/ handleProcessPending
  \/ \E c \in Slots, p \in PageIdInputs : MutationArrives(c, p)
  \/ \E c \in Slots : MutationRuns(c)
  \/ \E h \in client.handlers : MutationSettles(h)
  \/ \E h \in client.handlers : Refetch(h)

SpecClient == InitClient /\ [][NextClient]_vars

(* ---- the ProjectDetail page when every request settles ----             *)
(* The requests the running handlers have still to send: for a handler      *)
(* awaiting the request for its i-th page, that request unless it is in     *)
(* flight and one for every later page of its list.                         *)
RECURSIVE RequestsOf(_)
RequestsOf(handlers) ==
  IF handlers = {}
    THEN 0
    ELSE LET h == CHOOSE x \in handlers : TRUE IN
           (IF h.pc = "mutate" THEN Len(h.list) - h.i + 1 ELSE 0)
             + RequestsOf(handlers \ {h})

RequestsAhead ==
  RequestsOf(client.handlers)
    - Cardinality({ c \in Slots : calls[c].op = "retrySingle" })

(* A button is pressed only while the requests its handler will send are    *)
(* within MaxCalls, so that every started handler can send all of them.     *)
WithinMaxCalls(requests) == started + RequestsAhead + requests <= MaxCalls

NextClientSettling ==
  \/ \E p \in PageIdInputs : WithinMaxCalls(1) /\ handleRetrySingle(p)
  \/ /\ WithinMaxCalls(Len(PagesWithStatus(client.data, "failed")))
     /\ handleRetryFailed
  \/ /\ WithinMaxCalls(Len(PagesWithStatus(client.data, "pending")))
     /\ handleProcessPending
  \/ \E c \in Slots, p \in PageIdInputs : MutationArrives(c, p)
  \/ \E c \in Slots : MutationRuns(c)
  \/ \E h \in client.handlers : MutationSettles(h)
  \/ \E h \in client.handlers : Refetch(h)

(* Every request sent reaches the router, every call the router awaits      *)
(* returns, every response reaches the handler awaiting it and every        *)
(* refetch settles.                                                         *)
SpecClientSettling ==
  /\ InitClient
  /\ [][NextClientSettling]_vars
  /\ WF_vars(\E c \in Slots, p \in PageIdInputs : MutationArrives(c, p))
  /\ WF_vars(\E c \in Slots : MutationRuns(c))
  /\ WF_vars(\E h \in client.handlers : MutationSettles(h))
  /\ WF_vars(\E h \in client.handlers : Refetch(h))

(* ---- extractPageNumber ----                                              *)
(* A text is a sequence of characters.  Each of the five patterns is        *)
(* matched as String.prototype.match does without the g flag: the match     *)
(* that starts leftmost, and no other.  A greedy run takes every character  *)
(* of its class, because what follows a run in these patterns never belongs *)
(* to the class of the run.                                                 *)
Digits == { DigitChars[d] : d \in 1 .. Len(DigitChars) }

WhiteSpace == {" ", "\t", "\n", "\r"}

LineTerminators == {"\n", "\r"}

RomanLetters == DOMAIN UpperCase \cup DOMAIN romanMap

(* The length of the run of characters of class starting at index i.        *)
RECURSIVE Run(_, _, _)
Run(text, i, class) ==
  IF i > Len(text) \/ text[i] \notin class THEN 0 ELSE 1 + Run(text, i + 1, class)

(* ^ and $ under the m flag: before index i, after index j.                 *)
LineStart(text, i) == i = 1 \/ text[i - 1] \in LineTerminators

LineEnd(text, j) == j = Len(text) \/ text[j + 1] \in LineTerminators

(* The i flag: characters are compared by their upper-case form.            *)
Canonicalize(ch) ==
  IF ch \in DOMAIN UpperCase THEN UpperCase[ch]
  ELSE IF ch \in {"p", "a", "g", "e"}
    THEN ("p" :> "P" @@ "a" :> "A" @@ "g" :> "G" @@ "e" :> "E")[ch]
    ELSE ch

NoMatch == [matched |-> FALSE, captured |-> <<>>]

Match(text, from, length) ==
  [matched |-> TRUE, captured |-> SubSeq(text, from, from + length - 1)]

Leftmost(I) == CHOOSE i \in I : \A j \in I : i <= j

(* /^(\d+)$/m and /^([ivxlcdm]+)$/im : a line that is one run of the class. *)
lineOf(text, class) ==
  LET I == { i \in 1 .. Len(text) :
               /\ LineStart(text, i)
               /\ Run(text, i, class) >= 1
               /\ LineEnd(text, i + Run(text, i, class) - 1) }
  IN IF I = {} THEN NoMatch ELSE Match(text, Leftmost(I), Run(text, Leftmost(I), class))

(* /^[D]\s*(\d+)\s*[D]$/m with D a hyphen, an en dash or an em dash.         *)
dashedLine(text) ==
  LET Dashes == {"-", "en dash", "em dash"}
      from(i) == i + 1 + Run(text, i + 1, WhiteSpace)
      close(i) == from(i) + Run(text, from(i), Digits)
                    + Run(text, from(i) + Run(text, from(i), Digits), WhiteSpace)
      I == { i \in 1 .. Len(text) :
               /\ LineStart(text, i)
               /\ text[i] \in Dashes
               /\ Run(text, from(i), Digits) >= 1
               /\ close(i) <= Len(text)
               /\ text[close(i)] \in Dashes
               /\ LineEnd(text, close(i)) }
  IN IF I = {} THEN NoMatch
     ELSE Match(text, from(Leftmost(I)), Run(text, from(Leftmost(I)), Digits))

(* /(?:page|pg\.?|p\.?)\s*(\d+)/i : the alternatives in the order in which  *)
(* the pattern tries them at one index.                                     *)
pagePrefix(text) ==
  LET Prefixes == << <<"P", "A", "G", "E">>, <<"P", "G", ".">>, <<"P", "G">>,
                     <<"P", ".">>, <<"P">> >>
      from(i, n) == i + Len(Prefixes[n]) + Run(text, i + Len(Prefixes[n]), WhiteSpace)
      At(i, n) ==
        /\ i + Len(Prefixes[n]) - 1 <= Len(text)
        /\ \A k \in 1 .. Len(Prefixes[n]) : Canonicalize(text[i + k - 1]) = Prefixes[n][k]
        /\ Run(text, from(i, n), Digits) >= 1
      I == { i \in 1 .. Len(text) : \E n \in 1 .. Len(Prefixes) : At(i, n) }
  IN IF I = {} THEN NoMatch
     ELSE LET i == Leftmost(I)
              n == Leftmost({ m \in 1 .. Len(Prefixes) : At(i, m) })
          IN Match(text, from(i, n), Run(text, from(i, n), Digits))

(* /[\[\(](\d+)[\]\)]/                                                      *)
bracketed(text) ==
  LET I == { i \in 1 .. Len(text) :
               /\ text[i] \in {"[", "("}
               /\ Run(text, i + 1, Digits) >= 1
               /\ i + 1 + Run(text, i + 1, Digits) <= Len(text)
               /\ text[i + 1 + Run(text, i + 1, Digits)] \in {"]", ")"} }
  IN IF I = {} THEN NoMatch
     ELSE Match(text, Leftmost(I) + 1, Run(text, Leftmost(I) + 1, Digits))

patterns == 1 .. 5

match(text, pattern) ==
  CASE pattern = 1 -> lineOf(text, Digits)
    [] pattern = 2 -> dashedLine(text)
    [] pattern = 3 -> pagePrefix(text)
    [] pattern = 4 -> lineOf(text, RomanLetters)
    [] pattern = 5 -> bracketed(text)

NoPageNumber ==
  [pageNumber |-> [null |-> TRUE, value |-> <<>>], sortOrder |-> [null |-> TRUE, value |-> 0]]

PageNumber(captured, number) ==
  [pageNumber |-> [null |-> FALSE, value |-> captured],
   sortOrder |-> [null |-> FALSE, value |-> number]]

(* What the body of the loop does with a capture: the result it returns,    *)
(* NoPageNumber when it returns none and the loop goes on.                  *)
interpretInclusive(captured) ==
  LET arabic == romanToArabic(toUpperCase(captured))
      num == parseInt(captured)
  IN IF Run(captured, 1, RomanLetters) = Len(captured) /\ ~arabic.null
       THEN PageNumber(captured, arabic.value)
       ELSE IF ~isNaN(num) /\ num.value > 0 /\ num.value <= 10000
         THEN PageNumber(captured, num.value)
         ELSE NoPageNumber

interpret(captured) ==
  LET arabic == romanToArabic(toUpperCase(captured))
      num == parseInt(captured)
  IN IF Run(captured, 1, RomanLetters) = Len(captured) /\ ~arabic.null
       THEN PageNumber(captured, arabic.value)
       ELSE IF ~isNaN(num) /\ num.value > 0 /\ num.value < 10000
         THEN PageNumber(captured, num.value)
         ELSE NoPageNumber

RECURSIVE extractLoopLastWins(_, _)
extractLoopLastWins(text, pattern) ==
  IF pattern \notin patterns
    THEN NoPageNumber
    ELSE LET later == extractLoopLastWins(text, pattern + 1) IN
           IF ~later.pageNumber.null
             THEN later
             ELSE IF match(text, pattern).matched
               THEN interpret(match(text, pattern).captured)
               ELSE NoPageNumber

RECURSIVE extractLoop(_, _)
extractLoop(text, pattern) ==
  IF pattern \notin patterns
    THEN NoPageNumber
    ELSE IF /\ match(text, pattern).matched
            /\ ~interpret(match(text, pattern).captured).pageNumber.null
      THEN interpret(match(text, pattern).captured)
      ELSE extractLoop(text, pattern + 1)

extractPageNumber(text) == extractLoop(text, 1)

detectedPageNumberFallsBack(parsed) ==
  IF /\ ~parsed.pageNumber.null
     /\ parsed.pageNumber.value # <<>>
     /\ ~extractPageNumber(parsed.pageNumber.value).pageNumber.null
    THEN extractPageNumber(parsed.pageNumber.value).pageNumber
    ELSE extractPageNumber(parsed.text).pageNumber

(* performOCR: the label of the result, from the parsed answer of the       *)
(* recognizer.  An empty string is as falsy as null.                        *)
detectedPageNumber(parsed) ==
  IF ~parsed.pageNumber.null /\ parsed.pageNumber.value # <<>>
    THEN extractPageNumber(parsed.pageNumber.value).pageNumber
    ELSE extractPageNumber(parsed.text).pageNumber

(* The inputs: every text of up to MaxTextLen characters of TextAlphabet,   *)
(* the texts of the tests, the Roman numerals up to MaxNumeral in both      *)
(* cases and the texts of up to MaxDigits digits of DigitAlphabet; for      *)
(* performOCR, answers with and without a raw label.                        *)
TextAlphabet ==
  {"0", "1", "7", "i", "X", "p", "g", ".", " ", "\n", "-", "[", ")"}

ShortTexts == UNION { [1 .. n -> TextAlphabet] : n \in 0 .. MaxTextLen }

ExampleTexts ==
  { <<"4", "2">>,
    <<"P", "a", "g", "e", " ", "1", "2", "3">>,
    <<"i", "v">>,
    <<"X", "I", "I">>,
    <<"-", " ", "5", "6", " ", "-">>,
    <<"[", "7", "8", "]">>,
    <<"(", "9", "9", ")">>,
    <<"P", "a", "g", "e", " ", "a", "b", "c">>,
    <<"9", "9", "9", "9", "9">>,
    <<"1", "2", "3">>,
    <<"n", "o", " ", "n", "u", "m", "b", "e", "r", " ", "h", "e", "r", "e">>,
    <<"\n", " ", " ", "S", "o", "m", "e", " ", "c", "o", "n", "t", "e", "n", "t", "\n",
      " ", " ", "P", "a", "g", "e", " ", "4", "5", "\n", " ", " ", "M", "o", "r", "e", "\n">>,
    <<"0", "\n", "5">>,
    <<"1", "2", "\n", "[", "3", "4", "]">>,
    <<"p", "g", ".", " ", "7">>,
    <<"p", ".", "8">>,
    <<"x", "i", "v", "\n", "(", "3", ")">>,
    <<"[", "0", "]", "\n", "3">>,
    <<"C", "h", "a", "p", "t", "e", "r", " ", "I", "\n", "1", "2">>,
    <<"i", "v", "x", "l", "c", "d", "m">>,
    <<"I", "I", "I", "I", "X">>,
    <<"v", "v", "x">> }

RomanUnits(one, five, ten) ==
  << <<>>, <<one>>, <<one, one>>, <<one, one, one>>, <<one, five>>, <<five>>,
     <<five, one>>, <<five, one, one>>, <<five, one, one, one>>, <<one, ten>> >>

RomanNumeral(n) ==
  RomanUnits("c", "d", "m")[((n \div 100) % 10) + 1]
    \o RomanUnits("x", "l", "c")[((n \div 10) % 10) + 1]
    \o RomanUnits("i", "v", "x")[(n % 10) + 1]

RomanTexts ==
  { RomanNumeral(n) : n \in 1 .. MaxNumeral }
    \cup { toUpperCase(RomanNumeral(n)) : n \in 1 .. MaxNumeral }

DigitAlphabet == {"0", "1", "9"}

DigitTexts == UNION { [1 .. n -> DigitAlphabet] : n \in 1 .. MaxDigits }

Texts == ShortTexts \cup ExampleTexts \cup RomanTexts \cup DigitTexts

ParsedInputs ==
  [pageNumber :
     {[null |-> TRUE, value |-> <<>>]}
       \cup { [null |-> FALSE, value |-> l] :
                l \in { <<>>, <<"7">>, <<"i", "v">>, <<"0">>,
                        <<"P", "a", "g", "e", " ", "1", "2", "3">>,
                        <<"P", "a", "g", "e", " ", "a", "b", "c">> } },
   text : { <<"4", "2">>,
            <<"x", "i", "v", "\n", "(", "3", ")">>,
            <<"n", "o", " ", "n", "u", "m", "b", "e", "r", " ", "h", "e", "r", "e">> }]

InitExtractor ==
  /\ pages = <<>>
  /\ projects = [p \in ProjectIds |->
                   [userId |-> ProjectOwner, totalPages |-> 0, processedPages |-> 0]]
  /\ calls = [c \in Slots |-> NoCall]
  /\ started = 0
  /\ ret = NoRet
  /\ invoker = NoInvocation
  /\ client = ClientMounted
  /\ extractor \in { [pc |-> "extractPageNumber", text |-> t] : t \in Texts }
                     \cup { [pc |-> "performOCR", parsed |-> p] : p \in ParsedInputs }

ExtractPageNumberReturns ==
  /\ extractor.pc = "extractPageNumber"
  /\ extractor' = [pc |-> "returned", text |-> extractor.text,
                   result |-> extractPageNumber(extractor.text)]
  /\ UNCHANGED <<pages, projects, calls, started, ret, invoker, client>>

PerformOCRDetectsPageNumber ==
  /\ extractor.pc = "performOCR"
  /\ extractor' = [pc |-> "detected", parsed |-> extractor.parsed,
                   detectedPageNumber |-> detectedPageNumber(extractor.parsed)]
  /\ UNCHANGED <<pages, projects, calls, started, ret, invoker, client>>

NextExtractor ==
  \/ ExtractPageNumberReturns
  \/ PerformOCRDetectsPageNumber

SpecExtractor == InitExtractor /\ [][NextExtractor]_vars

(* ---- properties ---- *)
PageIds == 1 .. Len(pages)

CompletedPages(projectId) ==
  { i \in PageIds : pages[i].projectId = projectId /\ pages[i].status = "completed" }

Acting(c) == calls[c] # NoCall /\ calls'[c] # calls[c]

TargetPage(call) ==
  IF call.op = "retryFailed" THEN call.failedPages[call.i] ELSE call.pageId

(* C1: in every reachable state, also in the middle of a handler or of a   *)
(* retryFailed batch, processedPages of a project equals the number of its *)
(* pages whose status is completed.                                        *)
C1_ProcessedEqualsCompleted ==
  \A p \in ProjectIds : projects[p].processedPages = Cardinality(CompletedPages(p))

(* C2: when single-page operations run on distinct pages (each page is     *)
(* processed by one operation only) with their steps interleaved, no       *)
(* increment is lost: once the operations have ended, the counter has      *)
(* grown by one per page they completed (by 2 for two successes).          *)
C2_NoLostIncrement ==
  (\A c \in Slots : calls[c].op \notin SinglePageOps)
    => \A p \in ProjectIds : projects[p].processedPages = Cardinality(CompletedPages(p))

(* C3: every write of status processing, by processOCR, retrySingle or an  *)
(* iteration of retryFailed, finds the page pending or failed.             *)
C3_ProcessingOnlyFromPendingOrFailed ==
  [][\A c \in Slots :
       (Acting(c) /\ calls[c].op \in {"processOCR", "retrySingle", "retryFailed"}
          /\ calls[c].pc = "updatePageStatus")
         => pages[TargetPage(calls[c])].status \in {"pending", "failed"}]_vars

(* C4: once a page is completed, no step changes its status, recognized    *)
(* text or label.                                                          *)
C4_CompletedIsFinal ==
  [][\A i \in PageIds :
       pages[i].status = "completed"
         => /\ pages'[i].status = "completed"
            /\ pages'[i].extractedText = pages[i].extractedText
            /\ pages'[i].detectedPageNumber = pages[i].detectedPageNumber]_vars

(* C5: retrySingle on a page it read as completed is rejected with the     *)
(* invalid-operation error (Unauthorized for a foreign caller) and changes *)
(* neither pages nor projects; retrySingle on a page it read as failed,    *)
(* called by the owner, writes processing, and after the recognizer's      *)
(* answer writes completed (success) or failed (failure).                  *)
C5_RetrySingleTransitions ==
  [][\A c \in Slots :
       (Acting(c) /\ calls[c].op = "retrySingle")
         => /\ (calls[c].pc = "getProject" /\ calls[c].page.status = "completed")
                 => /\ calls'[c] = NoCall
                    /\ ret'.op = "retrySingle" /\ ret'.outcome = "throw"
                    /\ ret'.error = IF calls[c].user = projects[calls[c].page.projectId].userId
                                      THEN InvalidOperation ELSE "Unauthorized"
                    /\ pages' = pages
                    /\ projects' = projects
            /\ (calls[c].pc = "getProject" /\ calls[c].page.status = "failed"
                  /\ calls[c].user = projects[calls[c].page.projectId].userId)
                 => calls'[c].pc = "updatePageStatus"
            /\ calls[c].pc = "updatePageStatus"
                 => /\ pages'[calls[c].pageId].status = "processing"
                    /\ calls'[c].pc = "performOCR"
            /\ calls[c].pc = "performOCR"
                 => calls'[c].pc = IF calls'[c].error = NULL THEN "updatePage" ELSE "catch"
            /\ calls[c].pc = "updatePage"
                 => pages'[calls[c].pageId].status = "completed"
            /\ calls[c].pc = "catch"
                 => pages'[calls[c].pageId].status = "failed"]_vars

C5_Witness ==
  /\ ret.op = "retrySingle"
  /\ ret.outcome = "throw"
  /\ ret.error = InvalidOperation
  /\ pages[ret.input].status = "completed"
  /\ \E i \in PageIds : pages[i].status = "failed" /\ pages[i].errorMessage \in OcrErrors

(* C6: a completed page has recognized text and no error text.             *)
C6_CompletedHasTextNoError ==
  \A i \in PageIds :
    pages[i].status = "completed"
      => pages[i].extractedText # NULL /\ pages[i].errorMessage = NULL

(* C7: a failed page has error text.                                       *)
C7_FailedHasError ==
  \A i \in PageIds : pages[i].status = "failed" => pages[i].errorMessage # NULL

C7_Witness ==
  \E i \in PageIds :
    /\ pages[i].status = "failed"
    /\ pages[i].errorMessage \in OcrErrors
    /\ \A c \in Slots : calls[c] = NoCall

(* C8: a step that takes a page from processing to failed is the catch of  *)
(* a request whose recognition failed; it stores that failure's message as *)
(* the page's error text and leaves the projects, so the processed-page    *)
(* counter, unchanged.                                                     *)
C8_FailureRecordedCounterUntouched ==
  [][\A i \in PageIds :
       (pages[i].status = "processing" /\ pages'[i].status = "failed")
         => /\ projects' = projects
            /\ \E c \in Slots :
                 /\ Acting(c)
                 /\ calls[c].pc = "catch"
                 /\ TargetPage(calls[c]) = i
                 /\ calls[c].error \in OcrErrors
                 /\ pages'[i].errorMessage = calls[c].error]_vars

C8_Witness ==
  /\ ret.op \in SinglePageOps
  /\ ret.outcome = "throw"
  /\ ret.error \in OcrErrors
  /\ pages[ret.input].status = "failed"
  /\ pages[ret.input].errorMessage = ret.error
  /\ projects[pages[ret.input].projectId].processedPages = 0

(* C9 as claimed: a recognition failure is never thrown by processOCR or   *)
(* retrySingle to the caller.                                              *)
C9_FailureNotThrown ==
  ~(ret.op \in SinglePageOps /\ ret.outcome = "throw" /\ ret.error \in OcrErrors)

(* C9 as amended: a recognition failure takes processOCR and retrySingle   *)
(* to their catch, which writes status failed with the failure's message   *)
(* and then ends the request by throwing an error with that message to the *)
(* caller.                                                                 *)
C9_FailureRecordedThenThrown ==
  [][\A c \in Slots :
       (Acting(c) /\ calls[c].op \in SinglePageOps)
         => /\ (calls[c].pc = "performOCR" /\ calls'[c].error # NULL)
                 => calls'[c].pc = "catch"
            /\ calls[c].pc = "catch"
                 => /\ pages'[calls[c].pageId].status = "failed"
                    /\ pages'[calls[c].pageId].errorMessage = calls[c].error
                    /\ calls'[c] = NoCall
                    /\ ret'.op = calls[c].op
                    /\ ret'.input = calls[c].pageId
                    /\ ret'.outcome = "throw"
                    /\ ret'.error = calls[c].error]_vars

C9_Witness ==
  /\ ret.op = "processOCR"
  /\ ret.outcome = "throw"
  /\ ret.error \in OcrErrors
  /\ pages[ret.input].errorMessage = ret.error

(* C10: a retryFailed request that has selected its pages ends only by     *)
(* returning, with one result entry per selected page in the order of      *)
(* selection and retriedCount equal to their number; an entry is           *)
(* success=false with the failure's message exactly when that page's       *)
(* recognition failed, and the pages after it are still handled.           *)
C10_OneResultPerPage ==
  [][\A c \in Slots :
       (Acting(c) /\ calls[c].op = "retryFailed")
         => /\ (calls[c].pc = "getPages" /\ calls'[c] = NoCall)
                 => /\ ret'.outcome = "return"
                    /\ ret'.retriedCount = 0
                    /\ ret'.results = <<>>
                    /\ FailedPagesOf(pages, calls[c].projectId) = <<>>
            /\ (calls[c].pc = "getPages" /\ calls'[c] # NoCall)
                 => /\ calls'[c].failedPages = FailedPagesOf(pages, calls[c].projectId)
                    /\ calls'[c].results = <<>>
            /\ (calls[c].pc # "getPages" /\ calls'[c] = NoCall)
                 => /\ ret'.op = "retryFailed"
                    /\ ret'.outcome = "return"
                    /\ Len(ret'.results) = Len(calls[c].failedPages)
                    /\ ret'.retriedCount = Len(calls[c].failedPages)
                    /\ \A k \in 1 .. Len(ret'.results) :
                         ret'.results[k].pageId = calls[c].failedPages[k]
            /\ calls[c].pc \in {"updatePage", "catch"}
                 => LET res == IF calls'[c] = NoCall THEN ret'.results ELSE calls'[c].results
                    IN /\ Len(res) = calls[c].i
                       /\ \A k \in 1 .. Len(calls[c].results) : res[k] = calls[c].results[k]
                       /\ res[calls[c].i].pageId = calls[c].failedPages[calls[c].i]
                       /\ res[calls[c].i].success = (calls[c].pc = "updatePage")
                       /\ calls[c].pc = "catch"
                            => res[calls[c].i].error = calls[c].error]_vars

C10_Witness ==
  /\ ret.op = "retryFailed"
  /\ ret.outcome = "return"
  /\ ret.retriedCount = 2
  /\ Len(ret.results) = 2
  /\ ~ret.results[1].success
  /\ ret.results[1].error \in OcrErrors
  /\ ret.results[2].success

(* C11: a retryFailed request reads the counter when it starts and writes  *)
(* the project in one step only, its last: having returned, it has set the *)
(* counter to the value it read plus the number of result entries with     *)
(* success=true, and with no such entry it has not written the project at  *)
(* all.  No step that completes a page of the batch touches the counter.   *)
C11_CounterGrowsBySuccesses ==
  [][\A c \in Slots :
       /\ (calls[c] = NoCall /\ calls'[c] # NoCall /\ calls'[c].op = "retryFailed")
            => calls'[c].processedPages = projects[calls'[c].projectId].processedPages
       /\ (Acting(c) /\ calls[c].op = "retryFailed")
            => /\ calls'[c] # NoCall => projects' = projects
               /\ calls'[c] = NoCall
                    => LET p == calls[c].projectId
                           n == Cardinality({k \in 1 .. Len(ret'.results) :
                                               ret'.results[k].success})
                       IN /\ ret'.outcome = "return"
                          /\ ret'.successCount = n
                          /\ \A q \in ProjectIds \ {p} : projects'[q] = projects[q]
                          /\ projects'[p].totalPages = projects[p].totalPages
                          /\ projects'[p].processedPages =
                               IF n > 0 THEN calls[c].processedPages + n
                                        ELSE projects[p].processedPages]_vars

C11_Witness ==
  /\ ret.op = "retryFailed"
  /\ ret.outcome = "return"
  /\ Len(ret.results) = 2
  /\ ret.successCount = 1
  /\ projects[ret.input].processedPages = 1
  /\ Cardinality(CompletedPages(ret.input)) = 1

(* C13: a retryFailed request works on its pages one after the other.  The *)
(* recognizer is called for a page only when every earlier page of the     *)
(* batch has its result entry and its final status, completed or failed,   *)
(* and, no other request working on its pages, the only page of the batch  *)
(* that is in processing at any time is the one between its processing     *)
(* write and its final write.                                              *)
BatchPages(call) == { call.failedPages[k] : k \in 1 .. Len(call.failedPages) }

InHand(call) ==
  IF call.pc \in {"performOCR", "updatePage", "catch"}
    THEN {call.failedPages[call.i]}
    ELSE {}

C13_BatchIsSequential ==
  [][\A c \in Slots :
       /\ (Acting(c) /\ calls[c].op = "retryFailed" /\ calls[c].pc = "performOCR")
            => /\ Len(calls[c].results) = calls[c].i - 1
               /\ \A k \in 1 .. (calls[c].i - 1) :
                    /\ calls[c].results[k].pageId = calls[c].failedPages[k]
                    /\ pages[calls[c].failedPages[k]].status \in {"completed", "failed"}
       /\ (calls'[c] # NoCall /\ calls'[c].op = "retryFailed"
             /\ calls'[c].pc # "getPages")
            => { i \in BatchPages(calls'[c]) : pages'[i].status = "processing" }
                 = InHand(calls'[c])]_vars

C13_Witness ==
  \E c \in Slots :
    /\ calls[c].op = "retryFailed"
    /\ calls[c].pc = "performOCR"
    /\ calls[c].i = 2
    /\ pages[calls[c].failedPages[1]].status \in {"completed", "failed"}
    /\ pages[calls[c].failedPages[2]].status = "processing"

(* C14: a call of fn that fails with a message containing neither '500'    *)
(* nor 'Internal Server Error' ends the activation at once: the error of   *)
(* that call is thrown, no delay is scheduled and fn is not called again.  *)
C14_NonTransientNotRetried ==
  [][(/\ invoker.pc = "fn"
      /\ invoker' # invoker
      /\ invoker'.pc # "returned"
      /\ \A k \in 1 .. Len(invoker'.lastError) :
           invoker'.lastError[k] \notin {"500", "Internal Server Error"})
       => /\ invoker'.pc = "thrown"
          /\ invoker'.thrown = invoker'.lastError
          /\ invoker'.thrown \in RecognizerErrors
          /\ invoker'.delays = invoker.delays
          /\ invoker'.fnCalls = invoker.fnCalls]_vars

C14_Witness ==
  /\ invoker.pc = "thrown"
  /\ invoker.maxRetries = maxRetriesDefault
  /\ invoker.thrown = <<"LLM invoke failed: ", "400", " ", "Bad Request">>
  /\ invoker.fnCalls = 1
  /\ invoker.delays = <<>>

(* C15: an activation calls fn at most maxRetries times and ends, by a     *)
(* return or a throw.  When it ends by throwing a failure that passes the  *)
(* 500 test, fn has been called exactly maxRetries times, the error thrown *)
(* is the one of the last call, and one delay fewer than calls has been    *)
(* scheduled, none after the last call.                                    *)
Running == invoker.pc \in {"fn", "setTimeout"}

Ended == invoker.pc \in {"returned", "thrown"}

C15_BoundedAttempts ==
  /\ [](invoker.pc # "none"
          => /\ invoker.fnCalls <= invoker.maxRetries
             /\ (invoker.pc = "thrown" /\ invoker.maxRetries > 0
                   /\ \E k \in 1 .. Len(invoker.thrown) :
                        invoker.thrown[k] \in {"500", "Internal Server Error"})
                  => /\ invoker.fnCalls = invoker.maxRetries
                     /\ invoker.thrown = invoker.lastError
                     /\ Len(invoker.delays) = invoker.maxRetries - 1)
  /\ (Running ~> Ended)

C15_Witness ==
  /\ invoker.pc = "thrown"
  /\ invoker.maxRetries = maxRetriesDefault
  /\ invoker.fnCalls = 3
  /\ Len(invoker.delays) = 2
  /\ invoker.thrown = <<"Internal Server Error">>

(* C16: the k-th delay of an activation, scheduled after the failed call   *)
(* with zero-based index k-1, is initialDelay for k = 1 and twice the      *)
(* delay before it otherwise; an activation that returns has scheduled one *)
(* delay per failed call and returns the value of the call that succeeded. *)
C16_DelaysDouble ==
  invoker.pc # "none"
    => /\ \A k \in 1 .. Len(invoker.delays) :
            invoker.delays[k] = IF k = 1 THEN invoker.initialDelay
                                         ELSE 2 * invoker.delays[k - 1]
       /\ invoker.pc = "returned"
            => /\ Len(invoker.delays) = invoker.fnCalls - 1
               /\ invoker.returned = "response"

C16_Witness ==
  /\ invoker.pc = "returned"
  /\ invoker.initialDelay = initialDelayDefault
  /\ invoker.fnCalls = 3
  /\ invoker.delays = <<1000, 2000>>
  /\ invoker.returned = "response"

(* C17: a call of fn that fails with a timeout before the last attempt is  *)
(* followed by a delay and another call, it does not end the activation.   *)
C17_TimeoutIsRetried ==
  [][(/\ invoker.pc = "fn"
      /\ invoker' # invoker
      /\ invoker'.pc # "returned"
      /\ invoker'.lastError \in TimeoutErrors
      /\ invoker.attempt < invoker.maxRetries - 1)
       => invoker'.pc = "setTimeout"]_vars

(* C18: the step that takes a page from processing to completed stores in  *)
(* the page record the text, the label, the formatting and the confidence  *)
(* of the recognizer's result, and with a label its numeric sort key.      *)
C18_CompletedWriteStoresResult ==
  [][\A c \in Slots :
       (/\ Acting(c)
        /\ calls[c].op \in {"processOCR", "retrySingle", "retryFailed"}
        /\ calls[c].pc = "updatePage"
        /\ pages[TargetPage(calls[c])].status = "processing")
         => LET page == pages'[TargetPage(calls[c])]
                result == calls[c].ocrResult
            IN /\ page.status = "completed"
               /\ page.extractedText = result.extractedText
               /\ page.detectedPageNumber = result.detectedPageNumber
               /\ page.formattingData = result.formattingData
               /\ page.confidence = result.confidence
               /\ (page.sortKey # NULL) <=> (result.detectedPageNumber # NULL)]_vars

(* C19: when a reorder request has written its positions, every page with  *)
(* a label stands before every page without one, pages without a label     *)
(* stand in creation order, and of two labelled pages the one whose label   *)
(* resolves to the smaller number, read as a decimal or as a Roman         *)
(* numeral, stands first.                                                  *)
ResolvedValue(label) ==
  LET chars == Chars[label] IN
    IF LeadingDigits(chars) = Len(chars)
      THEN DecimalValue(chars)
      ELSE romanToArabic(toUpperCase(chars)).value

Keyed(ps, i) == ps[i].detectedPageNumber # NULL

ReorderEnds(c) ==
  /\ calls[c] # NoCall
  /\ calls[c].op = "reorder"
  /\ calls'[c] = NoCall

C19_ReorderByResolvedValue ==
  [][\A c \in Slots :
       ReorderEnds(c)
         => \A i, j \in { k \in 1 .. Len(pages') : pages'[k].projectId = calls[c].projectId } :
              /\ (Keyed(pages', i) /\ ~Keyed(pages', j))
                   => pages'[i].sortOrder < pages'[j].sortOrder
              /\ (~Keyed(pages', i) /\ ~Keyed(pages', j) /\ i < j)
                   => pages'[i].sortOrder < pages'[j].sortOrder
              /\ (/\ Keyed(pages', i) /\ Keyed(pages', j)
                  /\ ResolvedValue(pages'[i].detectedPageNumber)
                       < ResolvedValue(pages'[j].detectedPageNumber))
                   => pages'[i].sortOrder < pages'[j].sortOrder]_vars

(* C20: when a reorder request has written its positions, of two pages     *)
(* whose labels resolve to the same number the one created first stands    *)
(* first, whatever positions the two had before.                           *)
C20_TiesByCreationOrder ==
  [][\A c \in Slots :
       ReorderEnds(c)
         => \A i, j \in { k \in 1 .. Len(pages') : pages'[k].projectId = calls[c].projectId } :
              (/\ Keyed(pages', i) /\ Keyed(pages', j)
               /\ ResolvedValue(pages'[i].detectedPageNumber)
                    = ResolvedValue(pages'[j].detectedPageNumber)
               /\ i < j)
                => pages'[i].sortOrder < pages'[j].sortOrder]_vars

(* C12: no two process or retry requests are in flight for the same page   *)
(* at any time while the ProjectDetail page drives the router.             *)
C12_OneOperationPerPage ==
  \A c, d \in Slots :
    (c # d /\ calls[c].op \in SinglePageOps /\ calls[d].op \in SinglePageOps)
      => calls[c].pageId # calls[d].pageId

ProjectPages(ps, projectId) ==
  { k \in 1 .. Len(ps) : ps[k].projectId = projectId }

(* C21: when a reorder request on a project with n pages has finished, the *)
(* positions of the project's pages are exactly 0 .. n-1, every page has    *)
(* one and no two pages have the same.                                      *)
C21_ReorderWritesZeroToNMinusOne ==
  [][\A c \in Slots :
       ReorderEnds(c)
         => LET P == ProjectPages(pages', calls[c].projectId) IN
              /\ { pages'[k].sortOrder : k \in P } = 0 .. (Cardinality(P) - 1)
              /\ \A i, j \in P : i # j => pages'[i].sortOrder # pages'[j].sortOrder]_vars

C21_Witness ==
  /\ ret = Success("reorder", 1, ProjectOwner)
  /\ Len(pages) = 2
  /\ pages[1].sortOrder = 1
  /\ pages[2].sortOrder = 0

(* The pages of a project stand in the comparator's order on the positions *)
(* 0 .. n-1.                                                                *)
Ordered(ps, projectId) ==
  LET P == ProjectPages(ps, projectId) IN
    /\ { ps[k].sortOrder : k \in P } = 0 .. (Cardinality(P) - 1)
    /\ \A i, j \in P : i # j => ps[i].sortOrder # ps[j].sortOrder
    /\ \A i, j \in P : ps[i].sortOrder < ps[j].sortOrder => compare(ps, i, j) <= 0

(* C22: reorder is idempotent.  A reorder request leaves the pages in the  *)
(* comparator's order on 0 .. n-1, and a reorder request that finds them so *)
(* (as a request does that directly follows another) changes no position   *)
(* in any of its steps.                                                     *)
C22_ReorderIdempotent ==
  [][\A c \in Slots :
       (calls[c] # NoCall /\ calls[c].op = "reorder")
         => /\ ReorderEnds(c) => Ordered(pages', calls[c].projectId)
            /\ Ordered(pages, calls[c].projectId) => pages' = pages]_vars

C22_Witness ==
  /\ \E c \in Slots :
       /\ calls[c] # NoCall
       /\ calls[c].op = "reorder"
       /\ calls[c].pc = "updatePage"
       /\ calls[c].i = 1
  /\ Ordered(pages, 1)
  /\ Len(pages) = 2
  /\ pages[2].sortOrder = 0
  /\ pages[1].detectedPageNumber = pages[2].detectedPageNumber

(* C23: in every state reached by upload, reorder and updateOrder requests, *)
(* in any interleaving, no two pages of one project have the same sort      *)
(* position.                                                                *)
C23_PositionsUnique ==
  \A i, j \in 1 .. Len(pages) :
    (i # j /\ pages[i].projectId = pages[j].projectId)
      => pages[i].sortOrder # pages[j].sortOrder

(* C24: export hands to the renderer only pages that had status completed   *)
(* when the page list was read, all of them, and a project without a        *)
(* completed page gets the error "No completed pages to export" and no      *)
(* document.                                                                *)
C24_ExportOnlyCompleted ==
  [][\A c \in Slots :
       (calls[c] # NoCall /\ calls[c].op = "export" /\ calls'[c] # calls[c])
         => /\ calls[c].pc = "getPages"
                 => IF CompletedPages(calls[c].projectId) = {}
                      THEN /\ calls'[c] = NoCall
                           /\ ret' = Throw("export", calls[c].projectId, calls[c].user,
                                           "No completed pages to export")
                      ELSE /\ calls'[c] # NoCall
                           /\ calls'[c].pc = "exportDocument"
                           /\ \A n \in 1 .. Len(calls'[c].completedPages) :
                                calls'[c].completedPages[n].status = "completed"
                           /\ { calls'[c].completedPages[n].id :
                                  n \in 1 .. Len(calls'[c].completedPages) }
                                = CompletedPages(calls[c].projectId)
            /\ calls[c].pc = "exportDocument"
                 => /\ ret'.outcome = "return"
                    /\ { ret'.data.of.pages[n].id : n \in 1 .. Len(ret'.data.of.pages) }
                         = { calls[c].completedPages[n].id :
                               n \in 1 .. Len(calls[c].completedPages) }]_vars

C24_Witness ==
  /\ ret.op = "export"
  /\ ret.outcome = "return"
  /\ Len(pages) = 2
  /\ pages[1].status = "failed"
  /\ pages[2].status = "completed"
  /\ Len(ret.data.of.pages) = 1
  /\ ret.data.of.pages[1].id = 2

AllOf(text, class) == Len(text) >= 1 /\ \A k \in 1 .. Len(text) : text[k] \in class

(* The value of a Roman numeral read from the left: every symbol counts     *)
(* with its value, negative when the symbol after it has a higher value.    *)
RECURSIVE SubtractiveSum(_, _)
SubtractiveSum(text, i) ==
  IF i > Len(text)
    THEN 0
    ELSE LET value(k) == romanMap[Canonicalize(text[k])] IN
           (IF i < Len(text) /\ value(i) < value(i + 1) THEN 0 - value(i) ELSE value(i))
             + SubtractiveSum(text, i + 1)

CaptureValue(captured) ==
  IF AllOf(captured, Digits) THEN DecimalValue(captured) ELSE SubtractiveSum(captured, 1)

ValidCapture(captured) ==
  \/ AllOf(captured, RomanLetters)
  \/ AllOf(captured, Digits) /\ DecimalValue(captured) > 0 /\ DecimalValue(captured) < 10000

(* C25 as stated: the label performOCR returns is the extractor's result on *)
(* the raw label whenever the recognizer's answer has one (it is not null), *)
(* and the extractor's result on the text when it has none.                 *)
C25_LabelFromRawLabelIfNotNull ==
  extractor.pc = "detected"
    => extractor.detectedPageNumber
         = IF ~extractor.parsed.pageNumber.null
             THEN extractPageNumber(extractor.parsed.pageNumber.value).pageNumber
             ELSE extractPageNumber(extractor.parsed.text).pageNumber

(* C25 amended: the label performOCR returns is the extractor's result on   *)
(* the raw label when the answer has a raw label that is not the empty      *)
(* string, whether or not the extractor finds a number in it, and the       *)
(* extractor's result on the text when the raw label is null or empty.      *)
C25_LabelFromRawLabelIfNotEmpty ==
  extractor.pc = "detected"
    => LET raw == extractor.parsed.pageNumber IN
         /\ (~raw.null /\ Len(raw.value) > 0)
              => extractor.detectedPageNumber = extractPageNumber(raw.value).pageNumber
         /\ (raw.null \/ Len(raw.value) = 0)
              => extractor.detectedPageNumber
                   = extractPageNumber(extractor.parsed.text).pageNumber

C25_Witness ==
  /\ extractor.pc = "detected"
  /\ ~extractor.parsed.pageNumber.null
  /\ extractor.parsed.pageNumber.value = <<"P", "a", "g", "e", " ", "a", "b", "c">>
  /\ extractor.parsed.text = <<"4", "2">>
  /\ extractor.detectedPageNumber.null

(* C26: extractPageNumber returns what the first of the five pattern        *)
(* classes, in the order digit line, dashed line, page prefix, Roman line,  *)
(* bracketed digits, whose match is a valid number gives: the captured text *)
(* and its value; it returns nulls when no class has such a match.          *)
C26_FirstValidClassWins ==
  extractor.pc = "returned"
    => LET valid == { k \in patterns :
                        /\ match(extractor.text, k).matched
                        /\ ValidCapture(match(extractor.text, k).captured) }
       IN IF valid = {}
            THEN extractor.result = NoPageNumber
            ELSE LET captured == match(extractor.text, Leftmost(valid)).captured IN
                   extractor.result = PageNumber(captured, CaptureValue(captured))

C26_Witness ==
  /\ extractor.pc = "returned"
  /\ extractor.text = <<"x", "i", "v", "\n", "(", "3", ")">>
  /\ extractor.result = PageNumber(<<"x", "i", "v">>, 14)

(* C27: for a Roman numeral in subtractive notation with a value from 1 to  *)
(* MaxNumeral, in lower or in upper case, extractPageNumber returns the     *)
(* numeral as it was written and its value; for any text of Roman letters   *)
(* the value is the sum of the symbols, a symbol standing immediately       *)
(* before a higher one counted negative.                                    *)
C27_RomanNumeralsRoundTrip ==
  extractor.pc = "returned"
    => /\ \A n \in 1 .. MaxNumeral :
            extractor.text \in {RomanNumeral(n), toUpperCase(RomanNumeral(n))}
              => extractor.result = PageNumber(extractor.text, n)
       /\ AllOf(extractor.text, RomanLetters)
            => extractor.result
                 = PageNumber(extractor.text, SubtractiveSum(extractor.text, 1))

C27_Witness ==
  /\ extractor.pc = "returned"
  /\ extractor.text = <<"X", "C", "I", "V">>
  /\ extractor.result = PageNumber(<<"X", "C", "I", "V">>, 94)

(* C28: for a text of decimal digits only, extractPageNumber returns the    *)
(* text and its value v when 0 < v < 10000, and nulls for both when v is 0  *)
(* or 10000 and above.                                                      *)
C28_DigitsInRange ==
  (extractor.pc = "returned" /\ AllOf(extractor.text, Digits))
    => LET v == DecimalValue(extractor.text) IN
         IF 0 < v /\ v < 10000
           THEN extractor.result = PageNumber(extractor.text, v)
           ELSE extractor.result = NoPageNumber

C28_Witness ==
  /\ extractor.pc = "returned"
  /\ extractor.text = <<"1", "0", "0", "0", "0">>
  /\ extractor.result = NoPageNumber

(* C29: the step in which a handler's call of performOCR settles, with a   *)
(* result or with a failure, changes no page and no project record; every  *)
(* change of a page or project record is made by a step of a handler that  *)
(* is not waiting for performOCR.                                          *)
C29_InvokerStateless ==
  [][/\ \A c \in Slots :
          (calls[c] # NoCall /\ calls[c].pc = "performOCR" /\ calls'[c] # calls[c])
            => (pages' = pages /\ projects' = projects)
     /\ (pages' # pages \/ projects' # projects)
          => \E c \in Slots :
               calls[c] # NoCall /\ calls[c].pc # "performOCR" /\ calls'[c] # calls[c]]_vars

C29_Witness ==
  \E c \in Slots :
    /\ calls[c] # NoCall
    /\ calls[c].op = "processOCR"
    /\ calls[c].pc = "catch"
    /\ pages[calls[c].pageId].status = "processing"
    /\ pages[calls[c].pageId].errorMessage = NULL

(* C30: a retryFailed batch that stands between two pages, one page handled *)
(* and the next not yet begun, can end there: a step is possible that ends  *)
(* the request, changes no page record and leaves no page of the batch in   *)
(* processing.                                                              *)
C30_BatchCanStopBetweenPages ==
  \A c \in Slots :
    (/\ calls[c] # NoCall
     /\ calls[c].op = "retryFailed"
     /\ calls[c].pc = "updatePageStatus"
     /\ calls[c].i > 1)
      => ENABLED (/\ NextSerial
                  /\ calls'[c] = NoCall
                  /\ pages' = pages
                  /\ \A k \in 1 .. Len(calls[c].failedPages) :
                       pages'[calls[c].failedPages[k]].status # "processing")

(* C31: when a page added to a project that holds one page, ordered at      *)
(* position 0, has been recognized, the added page stands after the         *)
(* existing page if its label is the higher number or if it has no label,   *)
(* and before it if its label is the lower number.                          *)
C31_AddedPageIsPlaced ==
  (/\ ret.op = "processOCR"
   /\ ret.outcome = "return"
   /\ ret.input = 2
   /\ Len(pages) = 2
   /\ pages[1].detectedPageNumber \in {"2", "10"})
    => /\ (pages[2].detectedPageNumber = "7" /\ pages[1].detectedPageNumber = "2")
            => pages[1].sortOrder < pages[2].sortOrder
       /\ (pages[2].detectedPageNumber = "7" /\ pages[1].detectedPageNumber = "10")
            => pages[2].sortOrder < pages[1].sortOrder
       /\ pages[2].detectedPageNumber = NULL
            => pages[1].sortOrder < pages[2].sortOrder

(* C32: every step of a request that creates or changes a page record or    *)
(* changes a project record is made for the user who owns the project of    *)
(* that record, and a step that answers Unauthorized changes no record.     *)
C32_NoChangeToForeignRecord ==
  [][/\ \A c \in Slots :
          (calls[c] # NoCall /\ calls'[c] # calls[c])
            => /\ \A k \in 1 .. Len(pages') :
                    (k > Len(pages) \/ pages'[k] # pages[k])
                      => projects[pages'[k].projectId].userId = calls[c].user
               /\ \A p \in DOMAIN projects :
                    projects'[p] # projects[p] => projects[p].userId = calls[c].user
     /\ (ret'.op # "none" /\ ret'.outcome = "throw" /\ ret'.error = "Unauthorized")
          => (pages' = pages /\ projects' = projects)]_vars

(* C33: when every recognizer call and every storage write returns, a page  *)
(* that is in status processing is later in status completed or failed,     *)
(* under every interleaving of processOCR, retrySingle and retryFailed.     *)
C33_ProcessingEventuallyLeft ==
  \A p \in 1 .. MaxPages :
    (getPageById(pages, p).status = "processing")
      ~> (getPageById(pages, p).status \in {"completed", "failed"})

(* C33 witness: a page two requests have put into processing has been      *)
(* completed by one of them while the other still awaits the recognizer.    *)
C33_Witness ==
  \E c \in Slots :
    /\ calls[c].op \in {"processOCR", "retrySingle"}
    /\ calls[c].pc \in {"updatePage", "catch"}
    /\ pages[calls[c].pageId].status = "completed"

(* C34: a step that creates a page record creates it in status pending,    *)
(* and whenever a step leaves no upload under way, each project's           *)
(* totalPages equals the number of page records created for it, also when   *)
(* the steps of several uploads have interleaved.                           *)
C34_TotalPagesCountsRecords ==
  [][/\ \A i \in 1 .. Len(pages') :
          i > Len(pages) => pages'[i].status = "pending"
     /\ (\A c \in Slots : calls'[c].op # "upload") =>
          \A p \in ProjectIds :
            projects'[p].totalPages =
              Cardinality({i \in 1 .. Len(pages') : pages'[i].projectId = p})]_vars

(* C35: retryFailed's read of the page list changes no record and selects   *)
(* exactly the pages of the given project that are failed at that moment;   *)
(* with none failed it answers at once with retriedCount 0 and no results.  *)
(* Every later step of the request changes no page outside that selection,  *)
(* so pages that were pending, processing or completed at the read, and     *)
(* pages of other projects, are left as they were.                          *)
C35_RetryFailedTouchesOnlyFailedPages ==
  [][\A c \in Slots :
       (Acting(c) /\ calls[c].op = "retryFailed") =>
         IF calls[c].pc = "getPages"
           THEN /\ pages' = pages
                /\ projects' = projects
                /\ LET failed == { i \in PageIds :
                                     /\ pages[i].projectId = calls[c].projectId
                                     /\ pages[i].status = "failed" }
                   IN  IF failed = {}
                         THEN /\ calls'[c] = NoCall
                              /\ ret'.outcome = "return"
                              /\ ret'.retriedCount = 0
                              /\ ret'.results = <<>>
                         ELSE /\ calls'[c] # NoCall
                              /\ { calls'[c].failedPages[k] :
                                     k \in 1 .. Len(calls'[c].failedPages) } = failed
           ELSE /\ Len(pages') = Len(pages)
                /\ \A i \in PageIds :
                     pages'[i] # pages[i] =>
                       \E k \in 1 .. Len(calls[c].failedPages) :
                         calls[c].failedPages[k] = i
                /\ calls'[c] # NoCall =>
                     calls'[c].failedPages = calls[c].failedPages]_vars

(* C35 witness: a retryFailed batch over one failed page has answered while *)
(* the other page, of another user's project, is still pending.             *)
C35_Witness ==
  /\ ret.op = "retryFailed"
  /\ ret.outcome = "return"
  /\ ret.retriedCount = 1
  /\ Len(pages) = 2
  /\ pages[1].projectId # ret.input
  /\ pages[1].status = "pending"

(* C36: when some line of the text consists solely of digits whose value is *)
(* above 0 and below 10000, extractPageNumber returns a non-null result,    *)
(* also when an earlier digit-only line has a value out of that range.      *)
C36_EveryLineConsidered ==
  (/\ extractor.pc = "returned"
   /\ \E i \in 1 .. Len(extractor.text), j \in 1 .. Len(extractor.text) :
        /\ i <= j
        /\ AllOf(SubSeq(extractor.text, i, j), Digits)
        /\ i = 1 \/ extractor.text[i - 1] \in LineTerminators
        /\ j = Len(extractor.text) \/ extractor.text[j + 1] \in LineTerminators
        /\ DecimalValue(SubSeq(extractor.text, i, j)) \in 1 .. 9999)
    => extractor.result # NoPageNumber

(* C37: extractPageNumber returns label and sort key both null or both      *)
(* non-null; a sort key that is not null is an integer above 0; and a text  *)
(* made of Roman letters only, in any order, gets a label and such a key.   *)
C37_SortKeyPositive ==
  extractor.pc = "returned"
    => /\ extractor.result.pageNumber.null = extractor.result.sortOrder.null
       /\ ~extractor.result.sortOrder.null
            => /\ extractor.result.sortOrder.value \in Nat
               /\ extractor.result.sortOrder.value > 0
       /\ AllOf(extractor.text, {"i", "v", "x", "l", "c", "d", "m",
                                 "I", "V", "X", "L", "C", "D", "M"})
            => /\ ~extractor.result.sortOrder.null
               /\ extractor.result.pageNumber.value = extractor.text

(* C37 witness: a Roman-letter text that is no numeral, every letter lower  *)
(* than the next, has been given a positive key.                            *)
C37_Witness ==
  /\ extractor.pc = "returned"
  /\ extractor.text = <<"i", "v", "x", "l", "c", "d", "m">>
  /\ extractor.result = PageNumber(<<"i", "v", "x", "l", "c", "d", "m">>, 334)

BatchKinds == {"handleRetryFailed", "handleProcessPending"}

ProgressOf(cl, kind) ==
  IF kind = "handleRetryFailed" THEN cl.retryingProgress ELSE cl.processingProgress

(* C38: a batch loop of the page (handleRetryFailed, handleProcessPending)  *)
(* that awaits the request for the i-th page of its list has counted i-1    *)
(* responses and shows progress i-1 of n; no more requests are in flight    *)
(* for a page than handlers await one, and a request arrives only for the   *)
(* page a handler awaits.  The response for the i-th page, resolved or      *)
(* rejected, is counted once, sets the progress to i and moves the loop to  *)
(* page i+1, or ends it after the n-th page with successCount + failCount   *)
(* equal to n and progress n of n.                                          *)
C38_BatchLoopVisitsEveryPage ==
  [][/\ \A h \in client.handlers :
          (h.kind \in BatchKinds /\ h.pc = "mutate")
            => /\ h.successCount + h.failCount = h.i - 1
               /\ ProgressOf(client, h.kind) = [current |-> h.i - 1, total |-> Len(h.list)]
     /\ \A p \in PageIdInputs :
          Cardinality(InFlightFor(p)) <= Cardinality(AwaitingMutation(p))
     /\ \A c \in Slots :
          (calls[c] = NoCall /\ calls'[c] # NoCall)
            => \E h \in client.handlers : h.pc = "mutate" /\ h.list[h.i] = calls'[c].pageId
     /\ \A h \in client.handlers :
          (h.kind \in BatchKinds /\ h.pc = "mutate" /\ h \notin client'.handlers)
            => /\ ret.op = "retrySingle"
               /\ ret.input = h.list[h.i]
               /\ \E g \in client'.handlers :
                    /\ g.id = h.id
                    /\ g.list = h.list
                    /\ g.successCount =
                         h.successCount + (IF ret.outcome = "return" THEN 1 ELSE 0)
                    /\ g.failCount =
                         h.failCount + (IF ret.outcome = "return" THEN 0 ELSE 1)
                    /\ ProgressOf(client', h.kind) = [current |-> h.i, total |-> Len(h.list)]
                    /\ IF h.i < Len(h.list)
                         THEN g.pc = "mutate" /\ g.i = h.i + 1
                         ELSE /\ g.pc = "refetch"
                              /\ g.successCount + g.failCount = Len(h.list)]_vars

(* C38 witness: a loop over two pages has ended after a rejected first      *)
(* request and a resolved second one.                                       *)
C38_Witness ==
  \E h \in client.handlers :
    /\ h.kind \in BatchKinds
    /\ h.pc = "refetch"
    /\ Len(h.list) = 2
    /\ h.successCount = 1
    /\ h.failCount = 1
    /\ pages[h.list[1]].status # "completed"
    /\ pages[h.list[2]].status = "completed"
    /\ ProgressOf(client, h.kind) = [current |-> 2, total |-> 2]

(* C39: when every request of the page's handlers settles, resolved or      *)
(* rejected, a set isRetrying is later false, a set isProcessing is later   *)
(* false and a set retryingPageId is later null.                            *)
C39_FlagsEventuallyReset ==
  /\ client.isRetrying ~> ~client.isRetrying
  /\ client.isProcessing ~> ~client.isProcessing
  /\ (client.retryingPageId # 0) ~> (client.retryingPageId = 0)

(* C39 witness: all handlers have ended, one of their requests rejected and *)
(* one resolved, and no flag is set.                                        *)
C39_Witness ==
  /\ client.clicks >= 1
  /\ client.handlers = {}
  /\ started >= 2
  /\ \E i \in PageIds : pages[i].status = "failed" /\ client.data[i] = "failed"
  /\ \E i \in PageIds : pages[i].status = "completed"
  /\ ~client.isRetrying
  /\ ~client.isProcessing
  /\ client.retryingPageId = 0

====
